---- MODULE Spec2Model ----
(***************************************************************************)
(* Model of the gdb remote-protocol stub of rd (src/src/gdb_connection.rs): *)
(* the GdbConnection state, the engine-facing operations (get_request,     *)
(* notify and reply calls), the transport (read_data_once, write_flush),   *)
(* and the framing.  Bytes are integers 0..255; byte strings are sequences.*)
(* Assertions are modelled as in a debug build (debug_assert! active); a   *)
(* failed assertion or panic! sets `panicked` and the program stops.       *)
(***************************************************************************)
EXTENDS Integers, Sequences, FiniteSets, TLC

VARIABLES
    req,                      \* GdbConnection.req
    resume_thread,            \* GdbConnection.resume_thread
    query_thread,             \* GdbConnection.query_thread
    no_ack,                   \* GdbConnection.no_ack
    multiprocess_supported_,  \* GdbConnection.multiprocess_supported_
    inbuf,                    \* GdbConnection.inbuf
    outbuf,                   \* GdbConnection.outbuf
    connection_alive_,        \* GdbConnection.connection_alive_
    panicked,                 \* "" or the message of the assertion/panic that stopped the program
    sock_in,                  \* bytes the peer has sent that the stub has not read yet
    sock,                     \* the socket: "open", "closed" (peer shut down) or "reset"
    waiting,                  \* the engine is inside get_request, blocked in read_data_once
    last,                     \* history: the last engine call, with the request it found
    io_log,                   \* history: the system calls of the last step (a call, or the
                              \*   part of a get_request between two waits)
    wire,                     \* history: the bytes the last step wrote to the socket
    queued,                   \* history: outbuf at the start of the last step followed by
                              \*   all the bytes the step appended to it, in order
    rx_log,                   \* history: the packets the framer completed in the last step:
                              \*   how each was acknowledged and how many bytes the step
                              \*   had queued before
    fmt                       \* the last application of a formatting function to inputs
                              \*   drawn from bounded sets, with its output (FormatSpec)

vars == <<req, resume_thread, query_thread, no_ack, multiprocess_supported_,
          inbuf, outbuf, connection_alive_, panicked, sock_in, sock, waiting,
          last, io_log, wire, queued, rx_log, fmt>>

----------------------------------------------------------------------------
(* Bytes and formatting                                                    *)

Ascii ==
    [c \in {"$", "#", "+", "-", "?", "}", "*", ".", ",", ";", ":", "0", "1", "2", "3",
            "4", "5", "6", "7", "8", "9", "a", "b", "c", "d", "e", "f", "g", "k",
            "l", "m", "p", "q", "s", "x", "C", "D", "E", "F", "H", "K", "O", "Q",
            "R", "T", "W", "X"} |->
        CASE c = "$" -> 36 [] c = "#" -> 35 [] c = "+" -> 43 [] c = "-" -> 45
          [] c = "?" -> 63 [] c = "}" -> 125 [] c = "*" -> 42 [] c = "." -> 46
          [] c = "," -> 44 [] c = ";" -> 59 [] c = ":" -> 58
          [] c = "0" -> 48 [] c = "1" -> 49 [] c = "2" -> 50 [] c = "3" -> 51
          [] c = "4" -> 52 [] c = "5" -> 53 [] c = "6" -> 54 [] c = "7" -> 55
          [] c = "8" -> 56 [] c = "9" -> 57
          [] c = "a" -> 97 [] c = "b" -> 98 [] c = "c" -> 99 [] c = "d" -> 100
          [] c = "e" -> 101 [] c = "f" -> 102 [] c = "g" -> 103 [] c = "k" -> 107
          [] c = "l" -> 108 [] c = "m" -> 109 [] c = "p" -> 112 [] c = "q" -> 113
          [] c = "s" -> 115 [] c = "x" -> 120
          [] c = "C" -> 67 [] c = "D" -> 68 [] c = "E" -> 69 [] c = "F" -> 70
          [] c = "H" -> 72 [] c = "K" -> 75 [] c = "O" -> 79 [] c = "Q" -> 81
          [] c = "R" -> 82 [] c = "T" -> 84 [] c = "W" -> 87 [] c = "X" -> 88]

\* The bytes of a literal, given as a sequence of one-character strings.
B(lit) == [i \in 1..Len(lit) |-> Ascii[lit[i]]]

INTERRUPT_CHAR == 3

Drop(s, n) == SubSeq(s, n + 1, Len(s))

Take(s, n) == SubSeq(s, 1, n)

Min(a, b) == IF a < b THEN a ELSE b

\* One lowercase hexadecimal digit.
HexDigit(d) == IF d < 10 THEN 48 + d ELSE 87 + d

RECURSIVE HexDigits(_)
\* "{:x}" of a non-negative integer.
HexDigits(n) == IF n < 16 THEN <<HexDigit(n)>> ELSE Append(HexDigits(n \div 16), HexDigit(n % 16))

\* "{:02x}" of a non-negative integer: at least two digits, zero padded.
Hex02(n) == IF n < 16 THEN <<48, HexDigit(n)>> ELSE HexDigits(n)

RECURSIVE SumWithoutWrap(_)
\* A checksum that is not reduced to a byte.
SumWithoutWrap(data) ==
    IF data = <<>> THEN 0 ELSE SumWithoutWrap(Take(data, Len(data) - 1)) + data[Len(data)]

RECURSIVE Checksum(_)
\* write_packet_bytes: checksum = checksum.overflowing_add(b).0 over the data, in u8.
Checksum(data) ==
    IF data = <<>> THEN 0 ELSE (Checksum(Take(data, Len(data) - 1)) + data[Len(data)]) % 256

\* A framed packet: '$', the payload, '#', the checksum in two hex digits.
PacketBytes(data) == <<36>> \o data \o <<35>> \o Hex02(Checksum(data))

----------------------------------------------------------------------------
(* Thread ids and requests                                                 *)

GdbThreadId(pid, tid) == [pid |-> pid, tid |-> tid]

ANY == GdbThreadId(0, 0)

ALL == GdbThreadId(-1, -1)

\* impl Default for GdbThreadId
DefaultThreadId == GdbThreadId(-1, -1)

\* The thread group the stub pretends is the only one (argument of GdbConnection::new).
tgid == 1

\* The request kinds, in the order in which the enumeration lists them.  The
\* numeric values come from the generated bindings; only their order matters.
DreqOrder ==
    <<"DREQ_NONE", "DREQ_GET_MEM", "DREQ_SET_MEM", "DREQ_SEARCH_MEM",
      "DREQ_GET_REG", "DREQ_GET_REGS", "DREQ_SET_REG",
      "DREQ_WATCH_FIRST", "DREQ_WATCH_LAST",
      "DREQ_CONT", "DREQ_DETACH", "DREQ_INTERRUPT", "DREQ_GET_STOP_REASON",
      "DREQ_GET_CURRENT_THREAD", "DREQ_SET_CONTINUE_THREAD", "DREQ_SET_QUERY_THREAD",
      "DREQ_GET_THREAD_LIST", "DREQ_GET_IS_THREAD_ALIVE", "DREQ_GET_THREAD_EXTRA_INFO",
      "DREQ_GET_AUXV", "DREQ_GET_EXEC_FILE", "DREQ_READ_SIGINFO", "DREQ_WRITE_SIGINFO",
      "DREQ_TLS", "DREQ_QSYMBOL", "DREQ_RESTART", "DREQ_RD_CMD", "DREQ_GET_OFFSETS",
      "DREQ_FILE_SETFS", "DREQ_FILE_OPEN", "DREQ_FILE_PREAD", "DREQ_FILE_CLOSE">>

GdbRequestType == {DreqOrder[i] : i \in 1..Len(DreqOrder)}

\* The numeric value of a request kind.
DreqValue(t) == CHOOSE i \in 1..Len(DreqOrder) : DreqOrder[i] = t

DREQ_MEM_FIRST == "DREQ_GET_MEM"

DREQ_MEM_LAST == "DREQ_SEARCH_MEM"

DREQ_REG_FIRST == "DREQ_GET_REG"

DREQ_REG_LAST == "DREQ_SET_REG"

InRange(t, first, lst) == DreqValue(first) <= DreqValue(t) /\ DreqValue(t) <= DreqValue(lst)

\* The payload variant GdbRequest::new pairs with a kind; "panic" is the `_` arm.
GdbRequestValueOf(t) ==
    CASE t = "DREQ_NONE" -> "GdbRequestNone"
      [] InRange(t, DREQ_MEM_FIRST, DREQ_MEM_LAST) -> "GdbRequestMem"
      [] InRange(t, "DREQ_WATCH_FIRST", "DREQ_WATCH_LAST") -> "GdbRequestWatch"
      [] InRange(t, DREQ_REG_FIRST, DREQ_REG_LAST) -> "GdbRequestRegisterValue"
      [] t = "DREQ_RESTART" -> "GdbRequestRestart"
      [] t = "DREQ_CONT" -> "GdbRequestCont"
      [] t = "DREQ_RD_CMD" -> "GdbRequestText"
      [] t = "DREQ_TLS" -> "GdbRequestTls"
      [] t = "DREQ_QSYMBOL" -> "GdbRequestSymbol"
      [] t = "DREQ_FILE_SETFS" -> "GdbRequestFileSetfs"
      [] t = "DREQ_FILE_OPEN" -> "GdbRequestFileOpen"
      [] t = "DREQ_FILE_PREAD" -> "GdbRequestFilePread"
      [] t = "DREQ_FILE_CLOSE" -> "GdbRequestFileClose"
      [] OTHER -> "panic"

\* A request value.  run_direction and actions are the Cont payload (the
\* defaults of gdb_request::Cont for the other kinds).
Request(t, value, target, dir, actions) ==
    [type_ |-> t, value |-> value, target |-> target,
     suppress_debugger_stop |-> FALSE, run_direction |-> dir, actions |-> actions]

\* GdbRequest::new(maybe_type); None is passed as "DREQ_NONE" (unwrap_or).
\* The result has value = "panic" when the constructor panics.
GdbRequest_new(t) == Request(t, GdbRequestValueOf(t), ANY, "RunForward", <<>>)

\* GdbContAction::new with every argument given.
GdbContAction_new(type, target, sig) ==
    [type_ |-> type, target |-> target, maybe_signal_to_deliver |-> sig]

is_resume_request(r) == r.type_ = "DREQ_CONT"

\* A request_needs_immediate_response that also lets a stop-reason query wait.
NeedsResponseExceptStopReason(r) ==
    r.type_ \notin {"DREQ_NONE", "DREQ_CONT", "DREQ_GET_STOP_REASON"}

request_needs_immediate_response(r) ==
    CASE r.type_ \in {"DREQ_NONE", "DREQ_CONT"} -> FALSE
      [] OTHER -> TRUE

----------------------------------------------------------------------------
(* The connection as a value.  The operations below are functions on a     *)
(* record `s` holding the GdbConnection fields, the socket, the history of *)
(* the call in progress and what the environment does during the call:     *)
(*   rchunk  the most bytes one read() returns,                            *)
(*   wchunk  the most bytes one write() accepts,                           *)
(*   budget  the bytes the socket still accepts before the peer resets the *)
(*           connection (-1: the peer does not reset it during the call).  *)
(* packetend (index of the '#' of the current packet) lives only between   *)
(* read_packet and process_packet of one get_request call.                 *)

\* The call stopped: an assertion failed, or it waits for input that is not there.
Halted(s) == s.panic # "" \/ s.blocked

Panic(s, msg) == IF Halted(s) THEN s ELSE [s EXCEPT !.panic = msg]

\* debug_assert!/assert!/parser_assert!
Check(s, cond, msg) == IF cond THEN s ELSE Panic(s, msg)

Io(s, calls) == [s EXCEPT !.io = @ \cup calls]

\* The size of the stack buffer read_data_once reads into.
ReadBufSize == 4096

\* A poll that reports the descriptor ready whatever its state.
PollAlwaysReady(s) == TRUE

\* poll_socket: true iff poll() reports the descriptor ready (data, hang-up or error).
\* poll_incoming(sock_fd, 0): no wait.
poll_incoming_nowait(s) == s.sock_in # <<>> \/ s.sock # "open"

\* read_data_once: poll_incoming(-1), then one read(); Ok(0) | Err(_) marks the
\* connection closed (and leaves the buffers alone), Ok(n) appends the n bytes.
read_data_once(s) ==
    IF Halted(s) THEN s
    ELSE LET t == Io(s, {"poll_wait", "read"}) IN
         IF s.sock = "reset" THEN [t EXCEPT !.alive = FALSE]
         ELSE IF s.sock_in = <<>>
              THEN IF s.sock = "closed" THEN [t EXCEPT !.alive = FALSE]
                   ELSE [Io(s, {"poll_wait"}) EXCEPT !.blocked = TRUE]
              ELSE LET n == Min(Min(s.rchunk, ReadBufSize), Len(s.sock_in)) IN
                   [t EXCEPT !.inbuf = @ \o Take(s.sock_in, n),
                             !.sock_in = Drop(s.sock_in, n)]

RECURSIVE FlushLoop(_, _)
\* The loop of write_flush from `write_index`.
FlushLoop(s, write_index) ==
    IF write_index < Len(s.outbuf)
    THEN LET t == Io(s, {"poll_out", "write"}) IN
         IF s.sock # "open" \/ s.budget = 0
         THEN \* Err(_): mark the connection closed, discard the output
              [t EXCEPT !.alive = FALSE, !.outbuf = <<>>,
                        !.sock = IF s.sock = "open" THEN "reset" ELSE @]
         ELSE LET room == Len(s.outbuf) - write_index
                  m == Min(s.wchunk, room)
                  nwritten == IF s.budget < 0 THEN m ELSE Min(m, s.budget)
              IN FlushLoop([t EXCEPT !.wire = @ \o SubSeq(s.outbuf, write_index + 1,
                                                         write_index + nwritten),
                                     !.budget = IF @ < 0 THEN @ ELSE @ - nwritten],
                           write_index + nwritten)
    ELSE [s EXCEPT !.outbuf = <<>>]

\* A flush that trusts a single write() to take everything.
FlushOnce(s) ==
    IF Halted(s) THEN s ELSE [FlushLoop([s EXCEPT !.outbuf = Take(@, Min(Len(@), s.wchunk))], 0)
                                EXCEPT !.outbuf = <<>>]

\* A flush that keeps the unsent output when a write fails.
FlushKeepsOutputOnError(s) ==
    LET t == FlushLoop(s, 0) IN
    IF Halted(s) THEN s
    ELSE IF ~t.alive THEN [t EXCEPT !.outbuf = Drop(s.outbuf, Len(t.wire))] ELSE t

\* write_flush: send all pending output.
write_flush(s) == IF Halted(s) THEN s ELSE FlushLoop(s, 0)

write_data_raw(s, data) ==
    IF Halted(s) THEN s
    ELSE [s EXCEPT !.outbuf = @ \o data, !.queued = @ \o data]

\* write_hex: "{:02x}" of the value.
write_hex(s, hex) == write_data_raw(s, Hex02(hex))

\* write_packet_bytes: '$', the data, '#', the checksum in two hex digits.
write_packet_bytes(s, data) ==
    write_hex(write_data_raw(write_data_raw(write_data_raw(s, <<36>>), data), <<35>>),
              Checksum(data))

\* b ^ 0x20 of a byte.
Xor32(b) == IF (b \div 32) % 2 = 1 THEN b - 32 ELSE b + 32

RECURSIVE EscapeAllButStar(_)
\* An escaping loop that copies '*'.
EscapeAllButStar(data) ==
    IF data = <<>> THEN <<>>
    ELSE LET b == data[1] IN
         (IF b \in {35, 36, 125} THEN <<125, Xor32(b)>> ELSE <<b>>)
           \o EscapeAllButStar(Drop(data, 1))

RECURSIVE BinaryEscape(_)
\* The loop of write_binary_packet: '#', '$', '}' and '*' become '}' and the
\* byte xor 0x20, every other byte is copied.
BinaryEscape(data) ==
    IF data = <<>> THEN <<>>
    ELSE LET b == data[1] IN
         (IF b \in {35, 36, 125, 42} THEN <<125, Xor32(b)>> ELSE <<b>>)
           \o BinaryEscape(Drop(data, 1))

\* A binary packet whose checksum is that of the prefix and the data before
\* they are escaped.
WriteBinaryPacketSumsData(s, pfx, data) ==
    write_hex(write_data_raw(write_data_raw(write_data_raw(s, <<36>>),
                                            pfx \o BinaryEscape(data)), <<35>>),
              Checksum(pfx \o data))

\* write_binary_packet: the prefix and the escaped data, as one packet.
write_binary_packet(s, pfx, data) == write_packet_bytes(s, pfx \o BinaryEscape(data))

\* A consume_request that forgets to clear the current request.
ConsumeWithoutReset(s) ==
    IF Halted(s) THEN s ELSE write_flush([s EXCEPT !.consumed = TRUE])

\* consume_request: the current request becomes DREQ_NONE, then write_flush.
consume_request(s) ==
    IF Halted(s) THEN s
    ELSE write_flush([s EXCEPT !.req = GdbRequest_new("DREQ_NONE"), !.consumed = TRUE])

RECURSIVE FirstStart(_, _)
\* The loop of skip_to_packet_start: the first index (from i) holding '$' or the
\* interrupt character, 0 if there is none.
FirstStart(buf, i) ==
    IF i > Len(buf) THEN 0
    ELSE IF buf[i] = 36 \/ buf[i] = INTERRUPT_CHAR THEN i
    ELSE FirstStart(buf, i + 1)

\* A skip that also discards the byte that starts the packet.
SkipPastPacketStart(buf) ==
    LET e == FirstStart(buf, 1) IN IF e = 0 THEN <<>> ELSE Drop(buf, e)

\* skip_to_packet_start: the buffer afterwards, and the returned flag.
skip_to_packet_start_buf(buf) ==
    LET e == FirstStart(buf, 1) IN IF e = 0 THEN <<>> ELSE Drop(buf, e - 1)

skip_to_packet_start_ret(buf) == FirstStart(buf, 1) # 0

skip_to_packet_start(s) ==
    IF Halted(s) THEN s ELSE [s EXCEPT !.inbuf = skip_to_packet_start_buf(@)]

----------------------------------------------------------------------------
(* Framer and parser                                                       *)

\* sniff_packet: true iff a packet start is buffered, else the result of a
\* poll that does not wait.
sniff_packet_ret(s) ==
    skip_to_packet_start_ret(s.inbuf) \/ poll_incoming_nowait(s)

sniff_packet(s) ==
    IF Halted(s) THEN s
    ELSE LET t == skip_to_packet_start(s) IN
         IF skip_to_packet_start_ret(s.inbuf) THEN t
         ELSE Io(Check(t, t.inbuf = <<>>, "Failed to parse gdb request"), {"poll_nowait"})

RECURSIVE FindByte(_, _, _)
\* The first index >= i of byte b in buf, 0 if there is none.
FindByte(buf, b, i) ==
    IF i > Len(buf) THEN 0 ELSE IF buf[i] = b THEN i ELSE FindByte(buf, b, i + 1)

\* The requests the parser builds directly: kind, payload variant, target.
MakeRequest(t, target) == Request(t, "GdbRequestNone", target, "RunForward", <<>>)

RECURSIVE HexValue(_)
\* The value of a string of lowercase hexadecimal digits.
HexValue(digits) ==
    IF digits = <<>> THEN 0
    ELSE LET d == digits[Len(digits)] IN
         16 * HexValue(Take(digits, Len(digits) - 1)) + (IF d >= 97 THEN d - 87 ELSE d - 48)

\* A signed hexadecimal number ("-1" is a valid thread-id part).
SignedHexValue(digits) ==
    IF digits # <<>> /\ digits[1] = 45 THEN 0 - HexValue(Drop(digits, 1)) ELSE HexValue(digits)

\* The thread id of an H packet: "-1", "0", "p<pid>.<tid>" or "<tid>".
parse_threadid(str) ==
    IF str = B(<<"-", "1">>) THEN ALL
    ELSE IF str = B(<<"0">>) THEN ANY
    ELSE IF str # <<>> /\ str[1] = Ascii["p"]
         THEN LET dot == FindByte(str, 46, 1) IN
              GdbThreadId(SignedHexValue(SubSeq(str, 2, dot - 1)),
                          SignedHexValue(Drop(str, dot)))
    ELSE GdbThreadId(-1, SignedHexValue(str))

\* The payload of the packet that turns acknowledgements off.
QStartNoAckMode ==
    <<81, 83, 116, 97, 114, 116, 78, 111, 65, 99, 107, 77, 111, 100, 101>>

RECURSIVE ReadPacketAlwaysAcks(_)
\* A framer that acknowledges in no-ack mode too.
ReadPacketAlwaysAcks(s) ==
    IF Halted(s) \/ ~s.alive THEN s
    ELSE IF ~skip_to_packet_start_ret(s.inbuf)
         THEN ReadPacketAlwaysAcks(read_data_once(skip_to_packet_start(s)))
    ELSE LET t == skip_to_packet_start(s)
             hash == FindByte(t.inbuf, 35, 1)
         IN IF t.inbuf[1] = INTERRUPT_CHAR THEN [t EXCEPT !.packetend = 1]
            ELSE IF hash = 0 \/ Len(t.inbuf) < hash + 2
                 THEN ReadPacketAlwaysAcks(read_data_once(t))
            ELSE LET payload == SubSeq(t.inbuf, 2, hash - 1)
                     sum == SubSeq(t.inbuf, hash + 1, hash + 2)
                     u(how) == [t EXCEPT !.rx = Append(@, <<how, Len(t.queued)>>)]
                 IN IF sum = Hex02(Checksum(payload))
                    THEN [write_flush(write_data_raw(
                              u(IF t.no_ack THEN "unacked" ELSE "acked"), <<43>>))
                            EXCEPT !.packetend = hash]
                    ELSE ReadPacketAlwaysAcks(
                            [write_flush(write_data_raw(
                                u(IF t.no_ack THEN "unacked" ELSE "nacked"), <<45>>))
                               EXCEPT !.inbuf = Drop(t.inbuf, hash + 2)])

RECURSIVE read_packet(_)
\* read_packet: block until one complete packet (or an interrupt byte) starts
\* the inbound buffer; verify its checksum and acknowledge it.  Returns at
\* once on a dead connection.
read_packet(s) ==
    IF Halted(s) \/ ~s.alive THEN s
    ELSE IF ~skip_to_packet_start_ret(s.inbuf)
         THEN read_packet(read_data_once(skip_to_packet_start(s)))
    ELSE LET t == skip_to_packet_start(s)
             hash == FindByte(t.inbuf, 35, 1)
         IN IF t.inbuf[1] = INTERRUPT_CHAR THEN [t EXCEPT !.packetend = 1]
            ELSE IF hash = 0 \/ Len(t.inbuf) < hash + 2 THEN read_packet(read_data_once(t))
            ELSE LET payload == SubSeq(t.inbuf, 2, hash - 1)
                     sum == SubSeq(t.inbuf, hash + 1, hash + 2)
                     u(how) == [t EXCEPT !.rx = Append(@, <<how, Len(t.queued)>>)]
                 IN IF t.no_ack THEN [u("unacked") EXCEPT !.packetend = hash]
                    ELSE IF sum = Hex02(Checksum(payload))
                         THEN [write_flush(write_data_raw(u("acked"), <<43>>))
                                 EXCEPT !.packetend = hash]
                         ELSE read_packet(
                                 [write_flush(write_data_raw(u("nacked"), <<45>>))
                                    EXCEPT !.inbuf = Drop(t.inbuf, hash + 2)])

\* A b-packet handler whose action is on the query thread.
BPacketOnQueryThread(s, payload) ==
    IF payload \in {<<99>>, <<115>>}
    THEN [s EXCEPT !.req = [GdbRequest_new("DREQ_CONT") EXCEPT
                               !.run_direction = "RunBackward",
                               !.actions = <<GdbContAction_new(
                                                 IF payload = <<99>> THEN "ActionContinue"
                                                                     ELSE "ActionStep",
                                                 s.query_thread, <<>>)>>],
                   !.ret = TRUE]
    ELSE [write_packet_bytes(s, <<>>) EXCEPT !.ret = FALSE]

\* A b-packet handler that takes every packet starting with 'c' or 's' for
\* "c" or "s".
BPacketByFirstByte(s, payload) ==
    IF payload # <<>> /\ payload[1] \in {99, 115}
    THEN [s EXCEPT !.req = [GdbRequest_new("DREQ_CONT") EXCEPT
                               !.run_direction = "RunBackward",
                               !.actions = <<GdbContAction_new(
                                                 IF payload[1] = 99 THEN "ActionContinue"
                                                                    ELSE "ActionStep",
                                                 s.resume_thread, <<>>)>>],
                   !.ret = TRUE]
    ELSE [write_packet_bytes(s, <<>>) EXCEPT !.ret = FALSE]

\* process_bpacket: "c" and "s" become a backward continue request with one
\* action on the resume thread; anything else is answered with an empty packet.
process_bpacket(s, payload) ==
    IF payload = <<99>>
    THEN [s EXCEPT !.req = [GdbRequest_new("DREQ_CONT") EXCEPT
                               !.run_direction = "RunBackward",
                               !.actions = <<GdbContAction_new("ActionContinue",
                                                               s.resume_thread, <<>>)>>],
                   !.ret = TRUE]
    ELSE IF payload = <<115>>
    THEN [s EXCEPT !.req = [GdbRequest_new("DREQ_CONT") EXCEPT
                               !.run_direction = "RunBackward",
                               !.actions = <<GdbContAction_new("ActionStep",
                                                               s.resume_thread, <<>>)>>],
                   !.ret = TRUE]
    ELSE [write_packet_bytes(s, <<>>) EXCEPT !.ret = FALSE]

\* The forward continue request of the legacy "c" / "s" packets: one action on
\* the resume thread.
LegacyCont(s, type) ==
    Request("DREQ_CONT", "GdbRequestCont", ANY, "RunForward",
            <<GdbContAction_new(type, s.resume_thread, <<>>)>>)

\* process_packet: the packet at the start of the inbound buffer is removed
\* and either becomes the current request (ret = TRUE) or is answered here.
process_packet(s) ==
    IF Halted(s) THEN s
    ELSE IF s.inbuf[1] = INTERRUPT_CHAR
    THEN [s EXCEPT !.inbuf = Drop(@, 1), !.req = MakeRequest("DREQ_INTERRUPT", ANY),
                   !.ret = TRUE]
    ELSE LET payload == SubSeq(s.inbuf, 2, s.packetend - 1)
             t == [s EXCEPT !.inbuf = Drop(@, s.packetend + 2)]
             surface(r) == [t EXCEPT !.req = r, !.ret = TRUE]
             internal(u) == write_flush([u EXCEPT !.ret = FALSE])
         IN CASE payload = B(<<"?">>) ->
                    surface(MakeRequest("DREQ_GET_STOP_REASON", t.query_thread))
              [] payload = B(<<"D">>) \/ payload = B(<<"k">>) ->
                    surface(MakeRequest("DREQ_DETACH", ANY))
              [] payload = B(<<"g">>) ->
                    surface(MakeRequest("DREQ_GET_REGS", t.query_thread))
              [] payload = B(<<"q", "C">>) ->
                    surface(MakeRequest("DREQ_GET_CURRENT_THREAD", ANY))
              [] payload = QStartNoAckMode ->
                    internal([write_packet_bytes(t, B(<<"O", "K">>)) EXCEPT !.no_ack = TRUE])
              [] payload = B(<<"c">>) -> surface(LegacyCont(t, "ActionContinue"))
              [] payload = B(<<"s">>) -> surface(LegacyCont(t, "ActionStep"))
              [] Len(payload) > 2 /\ Take(payload, 2) = B(<<"H", "g">>) ->
                    surface(MakeRequest("DREQ_SET_QUERY_THREAD", parse_threadid(Drop(payload, 2))))
              [] Len(payload) > 2 /\ Take(payload, 2) = B(<<"H", "c">>) ->
                    surface(MakeRequest("DREQ_SET_CONTINUE_THREAD",
                                        parse_threadid(Drop(payload, 2))))
              [] payload # <<>> /\ payload[1] = Ascii["R"] ->
                    surface(GdbRequest_new("DREQ_RESTART"))
              [] payload # <<>> /\ payload[1] = Ascii["b"] ->
                    LET u == process_bpacket(t, Drop(payload, 1)) IN
                    IF u.ret THEN u ELSE internal(u)
              [] OTHER -> internal(write_packet_bytes(t, <<>>))

----------------------------------------------------------------------------
(* Stop replies                                                            *)

\* Option<Sig>: None is the empty sequence, Some(sig) is <<sig>>.
None == <<>>

Some(x) == <<x>>

\* A translation that leaves the named signals as they are and moves all the
\* realtime signals up by 14.
SignumShiftedBy14(maybe_sig) ==
    IF maybe_sig = None THEN 0
    ELSE LET sig == maybe_sig[1] IN
         CASE sig = 0 -> 0
           [] 1 <= sig /\ sig <= 31 -> sig
           [] sig = 32 -> 77
           [] 33 <= sig /\ sig <= 127 -> sig + 14
           [] OTHER -> 143

\* to_gdb_signum: linux-x86 signal numbers (libc) to gdb's numbering.
to_gdb_signum(maybe_sig) ==
    IF maybe_sig = None THEN 0
    ELSE LET sig == maybe_sig[1] IN
         CASE sig = 0 -> 0
           [] sig = 1 -> 1        \* SIGHUP
           [] sig = 2 -> 2        \* SIGINT
           [] sig = 3 -> 3        \* SIGQUIT
           [] sig = 4 -> 4        \* SIGILL
           [] sig = 5 -> 5        \* SIGTRAP
           [] sig = 6 -> 6        \* SIGABRT
           [] sig = 7 -> 10       \* SIGBUS
           [] sig = 8 -> 8        \* SIGFPE
           [] sig = 9 -> 9        \* SIGKILL
           [] sig = 10 -> 30      \* SIGUSR1
           [] sig = 11 -> 11      \* SIGSEGV
           [] sig = 12 -> 31      \* SIGUSR2
           [] sig = 13 -> 13      \* SIGPIPE
           [] sig = 14 -> 14      \* SIGALRM
           [] sig = 15 -> 15      \* SIGTERM
           [] sig = 16 -> 38      \* SIGSTKFLT
           [] sig = 17 -> 20      \* SIGCHLD
           [] sig = 18 -> 19      \* SIGCONT
           [] sig = 19 -> 17      \* SIGSTOP
           [] sig = 20 -> 18      \* SIGTSTP
           [] sig = 21 -> 21      \* SIGTTIN
           [] sig = 22 -> 22      \* SIGTTOU
           [] sig = 23 -> 16      \* SIGURG
           [] sig = 24 -> 24      \* SIGXCPU
           [] sig = 25 -> 25      \* SIGXFSZ
           [] sig = 26 -> 26      \* SIGVTALRM
           [] sig = 27 -> 27      \* SIGPROF
           [] sig = 28 -> 28      \* SIGWINCH
           [] sig = 29 -> 23      \* SIGIO
           [] sig = 30 -> 32      \* SIGPWR
           [] sig = 31 -> 12      \* SIGSYS
           [] sig = 32 -> 77
           [] 33 <= sig /\ sig <= 63 -> sig + 12
           [] 64 <= sig /\ sig <= 127 -> sig + 14
           [] OTHER -> 143

RECURSIVE Pow16(_)
Pow16(k) == IF k = 0 THEN 1 ELSE 16 * Pow16(k - 1)

\* "{:02x}" of an i32: a negative value prints as the eight digits of its 32-bit
\* two's complement, the bitwise complement of -(n + 1).
HexI32(n) ==
    IF n >= 0 THEN Hex02(n)
    ELSE [i \in 1..8 |-> HexDigit(15 - (((0 - (n + 1)) \div Pow16(8 - i)) % 16))]

RECURSIVE DecDigits(_)
\* "{}" of a usize.
DecDigits(n) == IF n < 10 THEN <<48 + n>> ELSE Append(DecDigits(n \div 10), 48 + (n % 10))

\* A stop reply that never writes the thread group of the thread.
StopReplyWithoutPid(mp, thread, maybe_sig, watch_addr) ==
    B(<<"T">>) \o HexI32(to_gdb_signum(maybe_sig))
      \o <<116, 104, 114, 101, 97, 100, 58>> \o HexI32(thread.tid) \o B(<<";">>)
      \o (IF watch_addr # 0
          THEN <<119, 97, 116, 99, 104, 58>> \o DecDigits(watch_addr) \o B(<<";">>)
          ELSE <<>>)

\* The payload send_stop_reply_packet formats.
StopReplyPayload(mp, thread, maybe_sig, watch_addr) ==
    B(<<"T">>) \o HexI32(to_gdb_signum(maybe_sig))
      \o <<116, 104, 114, 101, 97, 100, 58>>                   \* "thread:"
      \o (IF mp THEN B(<<"p">>) \o HexI32(thread.pid) \o B(<<".">>) ELSE <<>>)
      \o HexI32(thread.tid) \o B(<<";">>)
      \o (IF watch_addr # 0
          THEN <<119, 97, 116, 99, 104, 58>> \o DecDigits(watch_addr) \o B(<<";">>)  \* "watch:{};"
          ELSE <<>>)

send_stop_reply_packet(s, thread, maybe_sig, watch_addr) ==
    write_packet_bytes(s, StopReplyPayload(s.mp, thread, maybe_sig, watch_addr))

----------------------------------------------------------------------------
(* The engine-facing operations                                            *)

\* notify_restart: finish a DREQ_RESTART request.
notify_restart(s) ==
    LET t == Check(s, s.req.type_ = "DREQ_RESTART", "notify_restart: not a restart request") IN
    IF Halted(t) THEN t
    ELSE [t EXCEPT !.resume_thread = ANY, !.query_thread = ANY,
                   !.req = GdbRequest_new("DREQ_NONE")]

\* self.req = GdbRequest::new(Some(t)): the constructor panics on the kinds
\* its match does not list.
SetNewRequest(s, t) ==
    IF Halted(s) THEN s
    ELSE IF GdbRequest_new(t).value = "panic" THEN Panic(s, "Unknown DREQ")
    ELSE [s EXCEPT !.req = GdbRequest_new(t)]

RECURSIVE GetRequestLoop(_)
\* The loop of get_request: read a packet; a dead connection becomes a detach
\* request; a packet the parser answers itself is followed by the next one.
GetRequestLoop(s) ==
    IF Halted(s) THEN s
    ELSE LET t == read_packet(s) IN
         IF Halted(t) THEN t
         ELSE IF ~t.alive THEN SetNewRequest(t, "DREQ_DETACH")
         ELSE LET u == process_packet(t) IN
              IF Halted(u) \/ u.ret THEN u ELSE GetRequestLoop(u)

\* get_request
get_request(s) ==
    IF s.req.type_ = "DREQ_RESTART"
    THEN LET t == SetNewRequest(notify_restart(s), "DREQ_GET_STOP_REASON") IN
         IF Halted(t) THEN t ELSE [t EXCEPT !.req.target = t.query_thread]
    ELSE LET a == Check(s, request_needs_immediate_response(s.req) = FALSE,
                        "get_request: the current request needs an immediate response")
             t == sniff_packet(a)
         IN IF Halted(t) THEN t
            ELSE IF ~sniff_packet_ret(a) /\ is_resume_request(t.req) THEN t
            ELSE GetRequestLoop(t)

\* A notify_stop that reports every stop.
StopNeverIgnored(thread) == FALSE

\* notify_stop ignores the stop of a thread outside the debugged thread group.
StopIsIgnored(thread) == tgid # thread.pid

\* A notify_stop that selects the stopped thread whatever the direction.
ThreadAfterStopForwardOnly(r, thread) == thread

\* notify_stop: the thread selected for resume and query after a reported stop.
ThreadAfterStop(r, thread) ==
    IF is_resume_request(r) /\ r.run_direction = "RunBackward" THEN ANY ELSE thread

\* notify_stop
notify_stop(s, thread, maybe_sig, watch_addr) ==
    LET a == Check(s, is_resume_request(s.req) \/ s.req.type_ = "DREQ_INTERRUPT",
                   "notify_stop: neither a resume nor an interrupt request")
    IN IF Halted(a) \/ StopIsIgnored(thread) THEN a
       ELSE LET t == send_stop_reply_packet(a, thread, maybe_sig, watch_addr) IN
            consume_request([t EXCEPT !.resume_thread = ThreadAfterStop(s.req, thread),
                                      !.query_thread = ThreadAfterStop(s.req, thread)])

\* An exit notification that writes the code without padding it.
NotifyExitCodeUnpadded(s, code) ==
    consume_request(write_packet_bytes(s, B(<<"W">>) \o HexDigits(code)))

\* notify_exit_code
notify_exit_code(s, code) ==
    LET a == Check(s, is_resume_request(s.req) \/ s.req.type_ = "DREQ_INTERRUPT",
                   "notify_exit_code: neither a resume nor an interrupt request")
    IN consume_request(write_packet_bytes(a, B(<<"W">>) \o Hex02(code)))

\* notify_exit_signal
notify_exit_signal(s, sig) ==
    LET a == Check(s, is_resume_request(s.req) \/ s.req.type_ = "DREQ_INTERRUPT",
                   "notify_exit_signal: neither a resume nor an interrupt request")
    IN consume_request(write_packet_bytes(a, B(<<"X">>) \o Hex02(sig)))

\* reply_get_stop_reason
reply_get_stop_reason(s, which, sig) ==
    LET a == Check(s, s.req.type_ = "DREQ_GET_STOP_REASON", "reply_get_stop_reason")
    IN consume_request(send_stop_reply_packet(a, which, sig, 0))

\* reply_get_current_thread
reply_get_current_thread(s, thread) ==
    LET a == Check(s, s.req.type_ = "DREQ_GET_CURRENT_THREAD", "reply_get_current_thread")
    IN consume_request(write_packet_bytes(a,
          B(<<"Q", "C">>)
            \o (IF s.mp THEN B(<<"p">>) \o HexI32(thread.pid) \o B(<<".">>) ELSE <<>>)
            \o HexI32(thread.tid)))

\* GdbRegisterValue::MAX_SIZE, the largest register in bytes.
MAX_SIZE == 256

\* A GdbRegisterValue (without its name): value is the variant of
\* GdbRegisterValueData ("Value", "Value1", "Value2", "Value4", "Value8") and v
\* its content, the bytes of the array or the number of the scalar.
GdbRegisterValue(defined, size, value, v) ==
    [defined |-> defined, size |-> size, value |-> value, v |-> v]

\* "{:0w$x}" of a non-negative integer: at least w digits, zero padded.
HexPadded(n, w) ==
    LET d == HexDigits(n) IN
    IF Len(d) >= w THEN d ELSE [i \in 1..(w - Len(d)) |-> 48] \o d

RECURSIVE HexBytes(_)
\* "{:02x}" of each byte.
HexBytes(bytes) ==
    IF bytes = <<>> THEN <<>> ELSE Hex02(bytes[1]) \o HexBytes(Drop(bytes, 1))

\* print_reg_value: what it appends to the buffer (the size has been checked).
print_reg_value(reg) ==
    IF reg.defined
    THEN CASE reg.value = "Value" -> HexBytes(Take(reg.v, reg.size))
           [] reg.value = "Value1" -> HexPadded(reg.v, 2)
           [] reg.value = "Value2" -> HexPadded(reg.v, 4)
           [] reg.value = "Value4" -> HexPadded(reg.v, 8)
           [] reg.value = "Value8" -> HexPadded(reg.v, 16)
    ELSE [i \in 1..(2 * reg.size) |-> 120]                      \* "xx" size times

\* reply_get_reg; print_reg_value asserts reg.size <= MAX_SIZE.
reply_get_reg(s, reg) ==
    LET a == Check(s, s.req.type_ = "DREQ_GET_REG", "reply_get_reg")
        b == Check(a, reg.size <= MAX_SIZE, "Failed to parse gdb request")
    IN consume_request(write_packet_bytes(b, print_reg_value(reg)))

RECURSIVE PrintRegs(_)
\* The loop of reply_get_regs.
PrintRegs(file) ==
    IF file = <<>> THEN <<>> ELSE print_reg_value(file[1]) \o PrintRegs(Drop(file, 1))

\* reply_get_regs; print_reg_value asserts reg.size <= MAX_SIZE.
reply_get_regs(s, file) ==
    LET a == Check(s, s.req.type_ = "DREQ_GET_REGS", "reply_get_regs")
        b == Check(a, \A i \in 1..Len(file) : file[i].size <= MAX_SIZE,
                   "Failed to parse gdb request")
    IN consume_request(write_packet_bytes(b, PrintRegs(file)))

RECURSIVE ThreadListItems(_, _)
\* The loop of reply_get_thread_list: a thread of another thread group is
\* skipped, each of the others is written with a ',' after it.
ThreadListItems(s, threads) ==
    IF threads = <<>> THEN <<>>
    ELSE LET t == threads[1] IN
         (IF tgid # t.pid THEN <<>>
          ELSE IF s.mp THEN B(<<"p">>) \o HexI32(t.pid) \o B(<<".">>) \o HexI32(t.tid)
                              \o B(<<",">>)
          ELSE HexI32(t.tid) \o B(<<",">>))
           \o ThreadListItems(s, Drop(threads, 1))

\* reply_get_thread_list: "l" for an empty list, else "m" and the items, and
\* the packet is all of it but the last byte.
reply_get_thread_list(s, threads) ==
    LET a == Check(s, s.req.type_ = "DREQ_GET_THREAD_LIST", "reply_get_thread_list")
        buf == B(<<"m">>) \o ThreadListItems(s, threads)
    IN consume_request(IF threads = <<>> THEN write_packet_bytes(a, B(<<"l">>))
                       ELSE write_packet_bytes(a, Take(buf, Len(buf) - 1)))

\* write_hex_bytes_packet_with_prefix: the prefix, then "{:02x}" of each byte.
write_hex_bytes_packet_with_prefix(s, prefix, data) ==
    write_packet_bytes(s, prefix \o HexBytes(data))

\* write_hex_bytes_packet
write_hex_bytes_packet(s, data) == write_hex_bytes_packet_with_prefix(s, <<>>, data)

\* A reply_get_mem that answers an empty result like any other.
ReplyGetMemAlwaysHex(s, mem) ==
    LET a == Check(s, s.req.type_ = "DREQ_GET_MEM", "reply_get_mem")
        b == Check(a, Len(mem) <= s.req.mem.len, "reply_get_mem: mem.len() <= req.mem().len")
    IN consume_request(write_hex_bytes_packet(b, mem))

\* reply_get_mem
reply_get_mem(s, mem) ==
    LET a == Check(s, s.req.type_ = "DREQ_GET_MEM", "reply_get_mem")
        b == Check(a, Len(mem) <= s.req.mem.len, "reply_get_mem: mem.len() <= req.mem().len")
    IN consume_request(IF Halted(b) THEN b
                       ELSE IF s.req.mem.len > 0 /\ Len(mem) = 0
                            THEN write_packet_bytes(b, B(<<"E", "0", "1">>))
                       ELSE write_hex_bytes_packet(b, mem))

\* write_xfer_response
write_xfer_response(s, data, offset, len) ==
    LET size == Len(data) IN
    IF offset > size THEN write_packet_bytes(s, B(<<"E", "0", "1">>))
    ELSE IF offset = size THEN write_packet_bytes(s, B(<<"l">>))
    ELSE IF offset + len < size
         THEN write_binary_packet(s, B(<<"m">>), SubSeq(data, offset + 1, offset + len))
    ELSE write_binary_packet(s, B(<<"l">>), Drop(data, offset))

\* reply_get_auxv
reply_get_auxv(s, auxv) ==
    LET a == Check(s, s.req.type_ = "DREQ_GET_AUXV", "reply_get_auxv")
    IN consume_request(IF auxv # <<>> THEN write_binary_packet(a, B(<<"l">>), auxv)
                       ELSE write_packet_bytes(a, B(<<"E", "0", "1">>)))

\* reply_get_exec_file
reply_get_exec_file(s, exec_file) ==
    LET a == Check(s, s.req.type_ = "DREQ_GET_EXEC_FILE", "reply_get_exec_file")
    IN consume_request(IF exec_file # <<>> THEN write_binary_packet(a, B(<<"l">>), exec_file)
                       ELSE write_packet_bytes(a, B(<<"E", "0", "1">>)))

\* reply_read_siginfo
reply_read_siginfo(s, si_bytes) ==
    LET a == Check(s, s.req.type_ = "DREQ_READ_SIGINFO", "reply_read_siginfo")
    IN consume_request(IF si_bytes = <<>> THEN write_packet_bytes(a, B(<<"E", "0", "1">>))
                       ELSE write_binary_packet(a, B(<<"l">>), si_bytes))

\* The errno numbers and the open flags of the host (libc, Linux) that
\* send_file_error_reply and gdb_open_flags_to_system_flags name.
libc ==
    [EPERM |-> 1, ENOENT |-> 2, EINTR |-> 4, EBADF |-> 9, EACCES |-> 13, EFAULT |-> 14,
     EBUSY |-> 16, EEXIST |-> 17, ENODEV |-> 19, ENOTDIR |-> 20, EISDIR |-> 21,
     EINVAL |-> 22, ENFILE |-> 23, EMFILE |-> 24, EFBIG |-> 27, ENOSPC |-> 28,
     ESPIPE |-> 29, EROFS |-> 30, ENAMETOOLONG |-> 36,
     O_RDONLY |-> 0, O_WRONLY |-> 1, O_RDWR |-> 2, O_CREAT |-> 64, O_EXCL |-> 128,
     O_TRUNC |-> 512, O_APPEND |-> 1024, EIO |-> 5]

\* flags & mask != 0 for a mask of one bit.
HasBit(flags, mask) == (flags \div mask) % 2 = 1

\* An open-flags conversion that sets the host's truncate bit for the
\* protocol's create bit and the create bit for the truncate bit.
OpenFlagsCreateTruncateSwapped(flags) ==
    [panic |-> IF flags % 4 = 3 \/ flags >= 4096 \/ HasBit(flags, 4)
               THEN "Failed to parse gdb request" ELSE "",
     ret |-> (flags % 4) + (IF HasBit(flags, 8) THEN libc.O_APPEND ELSE 0)
               + (IF HasBit(flags, 512) THEN libc.O_TRUNC ELSE 0)
               + (IF HasBit(flags, 1024) THEN libc.O_CREAT ELSE 0)
               + (IF HasBit(flags, 2048) THEN libc.O_EXCL ELSE 0)]

\* gdb_open_flags_to_system_flags: the value returned (ret), or the panic of
\* a parser_assert. `ret |= bit` adds a bit that is not yet set.
gdb_open_flags_to_system_flags(flags) ==
    LET mode == CASE flags % 4 = 0 -> libc.O_RDONLY
                  [] flags % 4 = 1 -> libc.O_WRONLY
                  [] flags % 4 = 2 -> libc.O_RDWR
                  [] OTHER -> 0
        known == (flags % 4) + (IF HasBit(flags, 8) THEN 8 ELSE 0)
                   + (IF HasBit(flags, 512) THEN 512 ELSE 0)
                   + (IF HasBit(flags, 1024) THEN 1024 ELSE 0)
                   + (IF HasBit(flags, 2048) THEN 2048 ELSE 0)
    IN IF flags % 4 = 3 \/ flags - known # 0
       THEN [panic |-> "Failed to parse gdb request", ret |-> 0]
       ELSE [panic |-> "",
             ret |-> mode + (IF HasBit(flags, 8) THEN libc.O_APPEND ELSE 0)
                       + (IF HasBit(flags, 512) THEN libc.O_CREAT ELSE 0)
                       + (IF HasBit(flags, 1024) THEN libc.O_TRUNC ELSE 0)
                       + (IF HasBit(flags, 2048) THEN libc.O_EXCL ELSE 0)]

\* "{:x}" of an i32.
HexX(n) == IF n >= 0 THEN HexDigits(n) ELSE HexI32(n)

\* send_file_error_reply: the match on system_errno, then "F-01,{:x}".
send_file_error_reply(s, system_errno) ==
    LET gdb_err ==
            CASE system_errno = libc.EPERM -> 1
              [] system_errno = libc.ENOENT -> 2
              [] system_errno = libc.EINTR -> 4
              [] system_errno = libc.EBADF -> 9
              [] system_errno = libc.EACCES -> 13
              [] system_errno = libc.EFAULT -> 14
              [] system_errno = libc.EBUSY -> 16
              [] system_errno = libc.EEXIST -> 17
              [] system_errno = libc.ENODEV -> 19
              [] system_errno = libc.ENOTDIR -> 20
              [] system_errno = libc.EISDIR -> 21
              [] system_errno = libc.EINVAL -> 22
              [] system_errno = libc.ENFILE -> 23
              [] system_errno = libc.EMFILE -> 24
              [] system_errno = libc.EFBIG -> 27
              [] system_errno = libc.ENOSPC -> 28
              [] system_errno = libc.ESPIPE -> 29
              [] system_errno = libc.EROFS -> 30
              [] system_errno = libc.ENAMETOOLONG -> 91
              [] OTHER -> 9999
    IN write_packet_bytes(s, B(<<"F", "-", "0", "1", ",">>) \o HexX(gdb_err))

\* reply_setfs
reply_setfs(s, err) ==
    LET a == Check(s, s.req.type_ = "DREQ_FILE_SETFS", "reply_setfs")
    IN consume_request(IF err # 0 THEN send_file_error_reply(a, err)
                       ELSE write_packet_bytes(a, B(<<"F", "0">>)))

\* reply_open
reply_open(s, fd, err) ==
    LET a == Check(s, s.req.type_ = "DREQ_FILE_OPEN", "reply_open")
    IN consume_request(IF err # 0 THEN send_file_error_reply(a, err)
                       ELSE write_packet_bytes(a, B(<<"F">>) \o HexX(fd) \o B(<<";">>)))

\* reply_pread
reply_pread(s, bytes, err) ==
    LET a == Check(s, s.req.type_ = "DREQ_FILE_PREAD", "reply_pread")
    IN consume_request(IF err # 0 THEN send_file_error_reply(a, err)
                       ELSE write_binary_packet(a, B(<<"F">>) \o HexX(Len(bytes))
                                                     \o B(<<";">>), bytes))

\* reply_close
reply_close(s, err) ==
    LET a == Check(s, s.req.type_ = "DREQ_FILE_CLOSE", "reply_close")
    IN consume_request(IF err # 0 THEN send_file_error_reply(a, err)
                       ELSE write_packet_bytes(a, B(<<"F", "0">>)))

\* A reply that selects the thread of the request whatever the engine says.
SelectThreadIgnoringOk(s, ok) ==
    LET b == IF s.req.type_ = "DREQ_SET_CONTINUE_THREAD"
             THEN [s EXCEPT !.resume_thread = s.req.target]
             ELSE [s EXCEPT !.query_thread = s.req.target]
    IN consume_request(write_packet_bytes(b, IF ok THEN B(<<"O", "K">>)
                                                  ELSE B(<<"E", "0", "1">>)))

\* reply_rd_cmd: the text is the payload, byte for byte.
reply_rd_cmd(s, text) ==
    LET a == Check(s, s.req.type_ = "DREQ_RD_CMD", "reply_rd_cmd")
    IN consume_request(write_packet_bytes(a, text))

\* reply_select_thread
reply_select_thread(s, ok) ==
    LET a == Check(s, s.req.type_ \in {"DREQ_SET_CONTINUE_THREAD", "DREQ_SET_QUERY_THREAD"},
                   "reply_select_thread")
        b == IF Halted(a) THEN a
             ELSE IF ok /\ s.req.type_ = "DREQ_SET_CONTINUE_THREAD"
                  THEN [a EXCEPT !.resume_thread = s.req.target]
             ELSE IF ok /\ s.req.type_ = "DREQ_SET_QUERY_THREAD"
                  THEN [a EXCEPT !.query_thread = s.req.target]
             ELSE a
    IN consume_request(write_packet_bytes(b, IF ok THEN B(<<"O", "K">>)
                                                  ELSE B(<<"E", "0", "1">>)))

\* notify_no_such_thread: the assertion compares the first bytes of the
\* argument with the current request; cmp is the result of that memcmp.
notify_no_such_thread(s, cmp) ==
    consume_request(write_packet_bytes(Check(s, cmp, "notify_no_such_thread"),
                                       B(<<"E", "1", "0">>)))

\* notify_restart_failed
notify_restart_failed(s) ==
    LET a == Check(s, s.req.type_ = "DREQ_RESTART", "notify_restart_failed")
    IN consume_request(write_packet_bytes(a, B(<<"E", "0", "1">>)))

\* A register reply that reports the failure as an error.
ReplySetRegWithError(s, ok) ==
    consume_request(write_packet_bytes(s, IF ok THEN B(<<"O", "K">>)
                                                  ELSE B(<<"E", "0", "1">>)))

\* reply_set_reg
reply_set_reg(s, ok) ==
    LET a == Check(s, s.req.type_ = "DREQ_SET_REG", "reply_set_reg")
    IN consume_request(write_packet_bytes(a, IF ok THEN B(<<"O", "K">>) ELSE <<>>))

\* reply_watchpoint_request
reply_watchpoint_request(s, ok) ==
    LET a == Check(s, InRange(s.req.type_, "DREQ_WATCH_FIRST", "DREQ_WATCH_LAST"),
                   "reply_watchpoint_request")
    IN consume_request(write_packet_bytes(a, IF ok THEN B(<<"O", "K">>)
                                                  ELSE B(<<"E", "0", "1">>)))

\* reply_detach: debug_assert!(DREQ_DETACH <= self.req.type_).
reply_detach(s) ==
    LET a == Check(s, DreqValue("DREQ_DETACH") <= DreqValue(s.req.type_), "reply_detach")
    IN consume_request(write_packet_bytes(a, B(<<"O", "K">>)))

----------------------------------------------------------------------------
(* Reading the memory of a task (session/task/common.rs)                   *)

\* The result of read_bytes_fallible: Ok(n) or Err(()); with it, how many
\* bytes were copied into buf and whether a read failed.
ReadResult(res, n, copied, erred) == [res |-> res, n |-> n, copied |-> copied, erred |-> erred]

RECURSIVE ReadLoopErrAfterShortRead(_, _, _, _)
\* A read loop that reports an error whenever a read fails.
ReadLoopErrAfterShortRead(len, all_read, preads, reopens) ==
    IF all_read >= len THEN ReadResult("Ok", all_read, all_read, FALSE)
    ELSE LET nread == IF preads = <<>> THEN -1
                      ELSE IF preads[1] > 0 THEN Min(preads[1], len - all_read)
                      ELSE preads[1]
         IN IF nread = 0 /\ all_read = 0
            THEN IF ~reopens THEN ReadResult("Ok", 0, 0, FALSE)
                 ELSE ReadLoopErrAfterShortRead(len, all_read, Drop(preads, 1), reopens)
            ELSE IF nread < 0 THEN ReadResult("Err", 0, all_read, TRUE)
            ELSE IF nread = 0 THEN ReadResult("Ok", all_read, all_read, FALSE)
            ELSE ReadLoopErrAfterShortRead(len, all_read + nread, Drop(preads, 1), reopens)

RECURSIVE ReadLoop(_, _, _, _)
\* The loop of read_bytes_fallible over the mem fd.  preads are the results
\* of the pread64 calls to come: k > 0 for up to k bytes read, 0 for none
\* (errno stays 0), -1 for an error; when they are used up the next one is an
\* error.  reopens is what open_mem_fd returns.
ReadLoop(len, all_read, preads, reopens) ==
    IF all_read >= len THEN ReadResult("Ok", all_read, all_read, FALSE)
    ELSE LET nread == IF preads = <<>> THEN -1
                      ELSE IF preads[1] > 0 THEN Min(preads[1], len - all_read)
                      ELSE preads[1]
             errno == IF nread < 0 THEN libc.EIO ELSE 0
         IN IF nread = 0 /\ all_read = 0 /\ errno = 0
            THEN IF ~reopens THEN ReadResult("Ok", 0, 0, FALSE)
                 ELSE ReadLoop(len, all_read, Drop(preads, 1), reopens)
            ELSE IF nread <= 0
                 THEN IF all_read > 0 THEN ReadResult("Ok", all_read, all_read, nread < 0)
                      ELSE ReadResult("Err", 0, all_read, nread < 0)
            ELSE ReadLoop(len, all_read + nread, Drop(preads, 1), reopens)

\* read_bytes_fallible for a buffer of len bytes: nothing to do for an empty
\* buffer, a copy from a local mapping if there is one, read_bytes_ptrace
\* (which reads ptraced bytes) if the mem fd is not open, else the loop.
read_bytes_fallible(len, local, fd_open, ptraced, preads, reopens) ==
    IF len = 0 THEN ReadResult("Ok", 0, 0, FALSE)
    ELSE IF local THEN ReadResult("Ok", len, len, FALSE)
    ELSE IF ~fd_open THEN ReadResult("Ok", ptraced, ptraced, FALSE)
    ELSE ReadLoop(len, 0, preads, reopens)

----------------------------------------------------------------------------
(* Stops reported by waitpid (session/task/common.rs)                      *)

\* How many events (PTRACE_INTERRUPT requests and reported stops) one task
\* is followed through.
MaxStops == 4

\* The statuses waitpid reports here: a group stop with the signal that
\* stopped the group, or a signal-delivery stop.  WaitStatus itself is not in
\* this source; a status is the pair of its kind and its signal.
WaitStatuses ==
    {<<"group_stop", "SIGTRAP">>, <<"group_stop", "SIGTTIN">>, <<"stop_sig", "SIGSEGV">>}

\* Whether a group stop with this signal may have been induced by
\* PTRACE_INTERRUPT.  status is maybe_group_stop_sig() of the wait status.
is_signal_triggered_by_ptrace_interrupt(status) ==
    status[1] = "group_stop" /\ status[2] \in {"SIGTRAP", "SIGSTOP"}

\* The fields of a task that did_waitpid reads and writes here, and whether
\* its last call overrode the siginfo (its local siginfo_overriden).
WaitTask(expecting, status, si_signo, stopped, overriden) ==
    [expecting_ptrace_interrupt_stop |-> expecting, wait_status |-> status,
     si_signo |-> si_signo, is_stopped |-> stopped, siginfo_overriden |-> overriden]

\* A did_waitpid that keeps counting down after it has rewritten a stop.
DidWaitpidKeepsCounting(task, status, alive) ==
    LET positive == task.expecting_ptrace_interrupt_stop > 0
        hit == positive /\ is_signal_triggered_by_ptrace_interrupt(status)
        status1 == IF hit THEN <<"stop_sig", "TIME_SLICE_SIGNAL">> ELSE status
        getsiginfo == ~hit /\ status1[1] = "stop_sig"
        died == ~alive /\ (getsiginfo \/ ~task.is_stopped)
    IN WaitTask(IF positive THEN task.expecting_ptrace_interrupt_stop - 1 ELSE 0,
                IF died THEN <<"ptrace_event", "PTRACE_EVENT_EXIT">> ELSE status1,
                IF hit THEN "TIME_SLICE_SIGNAL"
                ELSE IF getsiginfo THEN (IF alive THEN status1[2] ELSE "0")
                ELSE task.si_signo,
                TRUE, hit)

\* did_waitpid(task, status): while the counter is positive it is decremented,
\* and a group stop that PTRACE_INTERRUPT may have induced becomes a stop
\* with TIME_SLICE_SIGNAL, with the pending siginfo overridden and the counter
\* reset.  Otherwise the siginfo of a signal stop is fetched.  A ptrace
\* request that finds the task dead (alive = FALSE) turns the status into
\* PTRACE_EVENT_EXIT: PTRACE_GETSIGINFO for a signal stop that was not
\* overridden, PTRACE_GETREGS if the task was not stopped already.
did_waitpid(task, status, alive) ==
    LET positive == task.expecting_ptrace_interrupt_stop > 0
        hit == positive /\ is_signal_triggered_by_ptrace_interrupt(status)
        status1 == IF hit THEN <<"stop_sig", "TIME_SLICE_SIGNAL">> ELSE status
        getsiginfo == ~hit /\ status1[1] = "stop_sig"
        died == ~alive /\ (getsiginfo \/ ~task.is_stopped)
    IN WaitTask(IF ~positive THEN task.expecting_ptrace_interrupt_stop
                ELSE IF hit THEN 0
                ELSE task.expecting_ptrace_interrupt_stop - 1,
                IF died THEN <<"ptrace_event", "PTRACE_EVENT_EXIT">> ELSE status1,
                IF hit THEN "TIME_SLICE_SIGNAL"
                ELSE IF getsiginfo THEN (IF alive THEN status1[2] ELSE "0")
                ELSE task.si_signo,
                TRUE, hit)

RECURSIVE TaskEvents(_, _)
\* The tasks after each of the events, the first one last.  An event is a
\* PTRACE_INTERRUPT request, which sets the counter to 2, or a stop
\* <<status, alive, is_stopped>> handed to did_waitpid: the status, whether
\* the task is still alive, and whether it was stopped already.
TaskEvents(task, events) ==
    IF events = <<>> THEN <<>>
    ELSE LET e == events[1]
             next == IF e[1] = <<"request", "PTRACE_INTERRUPT">>
                     THEN [task EXCEPT !.expecting_ptrace_interrupt_stop = 2,
                                       !.siginfo_overriden = FALSE]
                     ELSE did_waitpid([task EXCEPT !.is_stopped = e[3]], e[1], e[2])
         IN <<next>> \o TaskEvents(next, Drop(events, 1))

----------------------------------------------------------------------------
(* The system: the engine calls the stub, the peer (the debugger) sends    *)
(* bytes, closes or resets the connection.                                 *)

\* The peer sends while at most this many bytes it sent earlier are still unread.
MaxPending == 0

\* The peer may reset the connection after the stub has written this many more bytes.
MaxBudget == 1

\* What the peer sends: packets the parser knows, one it does not, one with a
\* bad checksum, the interrupt byte and an acknowledgement.
PeerPackets ==
    {PacketBytes(B(<<"?">>)), PacketBytes(B(<<"D">>)),
     PacketBytes(B(<<"c">>)), PacketBytes(B(<<"b", "c">>)),
     PacketBytes(B(<<"b", "x">>)), PacketBytes(B(<<"R", "0">>)),
     PacketBytes(B(<<"H", "g", "2">>)),
     B(<<"$", "?", "#", "0", "0">>), <<INTERRUPT_CHAR>>, B(<<"+">>)}

\* The threads the engine reports: one of the debugged thread group, one of another.
EngineThreads == {GdbThreadId(1, 1), GdbThreadId(2, 3)}

EngineSigs == {Some(5)}

WatchAddrs == {0, 4096}

ReadChunks == {1, ReadBufSize}

WriteChunks == {2}

Budgets == {-1} \cup (1..MaxBudget)

NoThread == GdbThreadId(0, -1)

\* The connection at the start of a call, under what the environment does during it.
Cur(rchunk, wchunk, budget) ==
    [req |-> req, resume_thread |-> resume_thread, query_thread |-> query_thread,
     no_ack |-> no_ack, mp |-> multiprocess_supported_, inbuf |-> inbuf, outbuf |-> outbuf,
     alive |-> connection_alive_, sock_in |-> sock_in, sock |-> sock,
     panic |-> "", blocked |-> FALSE, ret |-> FALSE, consumed |-> FALSE, packetend |-> 0,
     io |-> {}, wire |-> <<>>, queued |-> outbuf, rx |-> <<>>,
     rchunk |-> rchunk, wchunk |-> wchunk, budget |-> budget]

\* No '$' and no interrupt byte is buffered.
NoPacketStartIn(buf) == \A i \in 1..Len(buf) : buf[i] # 36 /\ buf[i] # INTERRUPT_CHAR

\* The input a call finds: on the socket (bytes, end of file or an error),
\* the start of a packet in inbuf, other bytes in inbuf, or nothing at all.
InputNow ==
    IF sock_in # <<>> \/ sock # "open" THEN "socket"
    ELSE IF ~NoPacketStartIn(inbuf) THEN "buffered"
    ELSE IF inbuf # <<>> THEN "junk" ELSE "none"

\* The call before the one made now, as far as the properties tell calls
\* apart; a notify_stop that returned without reporting the stop is one of them.
PrevCall ==
    IF last.op = "notify_stop" /\ ~last.consumed THEN "notify_stop (ignored)"
    ELSE IF last.op \in {"get_request", "notify_restart"} THEN last.op
    ELSE "other"

AllKept == {"req", "threads", "modes", "inbuf", "outbuf", "alive", "socket"}

\* The parts of the connection that are in t as they are now.
Kept(t) ==
    {f \in AllKept :
        CASE f = "req" -> t.req = req
          [] f = "threads" -> t.resume_thread = resume_thread /\ t.query_thread = query_thread
          [] f = "modes" -> t.no_ack = no_ack /\ t.mp = multiprocess_supported_
          [] f = "inbuf" -> t.inbuf = inbuf
          [] f = "outbuf" -> t.outbuf = outbuf
          [] f = "alive" -> t.alive = connection_alive_
          [] f = "socket" -> t.sock_in = sock_in /\ t.sock = sock}

\* One application of a formatting function: the function, its inputs, the
\* bytes it queued (out) or the number it returned (val).
Format(op, multi, threads, sig, watch, pfx, data, out, val) ==
    <<op, multi, threads, sig, watch, pfx, data, out, val, <<>>, "">>

\* One call of a reply operation: its name, its arguments (for some, with
\* what the request holds), and the connection t it leaves: the bytes queued
\* and whether it panicked.
Applied(op, args, t) ==
    <<op, t.mp, <<>>, <<>>, 0, <<>>, <<>>, t.queued, 0, args, t.panic>>

NoFormat == Format("none", FALSE, <<>>, <<>>, 0, <<>>, <<>>, <<>>, 0)

\* The call returned, panicked, or blocks in read_data_once, leaving the
\* connection as t; `call` describes it.
CommitAs(call, t) ==
    /\ waiting' = t.blocked
    /\ req' = t.req
    /\ resume_thread' = t.resume_thread
    /\ query_thread' = t.query_thread
    /\ no_ack' = t.no_ack
    /\ multiprocess_supported_' = t.mp
    /\ inbuf' = t.inbuf
    /\ outbuf' = t.outbuf
    /\ connection_alive_' = t.alive
    /\ panicked' = t.panic
    /\ sock_in' = t.sock_in
    /\ sock' = t.sock
    /\ last' = [call EXCEPT !.consumed = t.consumed, !.kept = Kept(t)]
    /\ io_log' = t.io
    /\ wire' = t.wire
    /\ queued' = t.queued
    /\ rx_log' = t.rx
    /\ fmt' = fmt

\* The call `op` made now.
Commit(op, arg, t) ==
    CommitAs([op |-> op, type_ |-> req.type_, dir |-> req.run_direction, arg |-> arg,
              alive |-> connection_alive_, input |-> InputNow, prev |-> PrevCall,
              consumed |-> FALSE, resumed |-> FALSE, kept |-> {}], t)

\* The engine can make a call: the program has not stopped and is not inside one.
Idle == panicked = "" /\ ~waiting

Init ==
    /\ req = GdbRequest_new("DREQ_NONE")
    /\ resume_thread = DefaultThreadId
    /\ query_thread = DefaultThreadId
    /\ no_ack = FALSE
    /\ multiprocess_supported_ = FALSE
    /\ inbuf = <<>>
    /\ outbuf = <<>>
    /\ connection_alive_ = TRUE
    /\ panicked = ""
    /\ sock_in = <<>>
    /\ sock = "open"
    /\ waiting = FALSE
    /\ last = [op |-> "new", type_ |-> "DREQ_NONE", dir |-> "RunForward", arg |-> NoThread,
               alive |-> TRUE, input |-> "none", prev |-> "other", consumed |-> FALSE,
               resumed |-> FALSE,
               kept |-> AllKept]
    /\ io_log = {}
    /\ wire = <<>>
    /\ queued = <<>>
    /\ rx_log = <<>>
    /\ fmt = NoFormat

GetRequest ==
    /\ Idle
    /\ \E rc \in ReadChunks, wc \in WriteChunks, bud \in Budgets :
          Commit("get_request", NoThread, get_request(Cur(rc, wc, bud)))

\* A get_request blocked in read_data_once goes on when the socket has input,
\* is closed or is reset.
GetRequestResume ==
    /\ panicked = ""
    /\ waiting
    /\ sock_in # <<>> \/ sock # "open"
    /\ \E rc \in ReadChunks, wc \in WriteChunks, bud \in Budgets :
          CommitAs([last EXCEPT !.resumed = TRUE], GetRequestLoop(Cur(rc, wc, bud)))

NotifyRestart ==
    /\ Idle
    /\ Commit("notify_restart", NoThread, notify_restart(Cur(1, 1, -1)))

NotifyStop ==
    /\ Idle
    /\ \E thread \in EngineThreads, sig \in EngineSigs, watch \in WatchAddrs,
          wc \in WriteChunks, bud \in Budgets :
          Commit("notify_stop", thread, notify_stop(Cur(1, wc, bud), thread, sig, watch))

NotifyExit ==
    /\ Idle
    /\ \E wc \in WriteChunks, bud \in Budgets :
          \/ Commit("notify_exit_code", NoThread, notify_exit_code(Cur(1, wc, bud), 0))
          \/ Commit("notify_exit_signal", NoThread, notify_exit_signal(Cur(1, wc, bud), 11))

ReplyGetStopReason ==
    /\ Idle
    /\ \E which \in EngineThreads, wc \in WriteChunks, bud \in Budgets :
          Commit("reply_get_stop_reason", which,
                 reply_get_stop_reason(Cur(1, wc, bud), which, Some(5)))

ReplySelectThread ==
    /\ Idle
    /\ \E ok \in BOOLEAN, wc \in WriteChunks, bud \in Budgets :
          Commit("reply_select_thread", NoThread, reply_select_thread(Cur(1, wc, bud), ok))

SimpleReply ==
    /\ Idle
    /\ \E ok \in BOOLEAN, wc \in WriteChunks, bud \in Budgets :
          LET s == Cur(1, wc, bud) IN
          \/ Commit("notify_no_such_thread", NoThread, notify_no_such_thread(s, ok))
          \/ Commit("notify_restart_failed", NoThread, notify_restart_failed(s))
          \/ Commit("reply_set_reg", NoThread, reply_set_reg(s, ok))
          \/ Commit("reply_watchpoint_request", NoThread, reply_watchpoint_request(s, ok))
          \/ Commit("reply_detach", NoThread, reply_detach(s))

PeerSend ==
    /\ panicked = ""
    /\ sock = "open"
    /\ \E p \in PeerPackets :
          /\ Len(sock_in) <= MaxPending
          /\ sock_in' = sock_in \o p
    /\ UNCHANGED <<req, resume_thread, query_thread, no_ack, multiprocess_supported_,
                   inbuf, outbuf, connection_alive_, panicked, sock, waiting, last,
                   io_log, wire, queued, rx_log, fmt>>

PeerClose ==
    /\ panicked = ""
    /\ sock = "open"
    /\ sock' = "closed"
    /\ UNCHANGED <<req, resume_thread, query_thread, no_ack, multiprocess_supported_,
                   inbuf, outbuf, connection_alive_, panicked, sock_in, waiting, last,
                   io_log, wire, queued, rx_log, fmt>>

PeerReset ==
    /\ panicked = ""
    /\ sock = "open"
    /\ sock' = "reset"
    /\ UNCHANGED <<req, resume_thread, query_thread, no_ack, multiprocess_supported_,
                   inbuf, outbuf, connection_alive_, panicked, sock_in, waiting, last,
                   io_log, wire, queued, rx_log, fmt>>

Next ==
    \/ GetRequest
    \/ GetRequestResume
    \/ NotifyRestart
    \/ NotifyStop
    \/ NotifyExit
    \/ ReplyGetStopReason
    \/ ReplySelectThread
    \/ SimpleReply
    \/ PeerSend
    \/ PeerClose
    \/ PeerReset

Spec == Init /\ [][Next]_vars

----------------------------------------------------------------------------
(* The same system with a peer that negotiates no-ack mode                 *)

\* What this peer sends at once: one packet or two; packets the stub answers
\* itself and one it hands to the engine, with a good or a bad checksum.
AckPackets ==
    LET noack == PacketBytes(QStartNoAckMode)
        unknown == PacketBytes(B(<<"b", "x">>))
        bad == B(<<"$", "?", "#", "0", "0">>)
    IN {noack, noack \o unknown, unknown, unknown \o unknown, bad, bad \o unknown,
        PacketBytes(B(<<"?">>))}

AckPeerSend ==
    /\ panicked = ""
    /\ sock = "open"
    /\ \E p \in AckPackets :
          /\ Len(sock_in) <= MaxPending
          /\ sock_in' = sock_in \o p
    /\ UNCHANGED <<req, resume_thread, query_thread, no_ack, multiprocess_supported_,
                   inbuf, outbuf, connection_alive_, panicked, sock, waiting, last,
                   io_log, wire, queued, rx_log, fmt>>

AckNext ==
    \/ GetRequest
    \/ GetRequestResume
    \/ NotifyStop
    \/ ReplyGetStopReason
    \/ SimpleReply
    \/ AckPeerSend
    \/ PeerClose
    \/ PeerReset

AckSpec == Init /\ [][AckNext]_vars

----------------------------------------------------------------------------
(* The formatting functions, applied to inputs drawn from bounded sets     *)

\* Signal numbers up to this one are tried (and -1, and no signal).
MaxSig == 130

\* Reads of up to this many bytes of a task's memory are tried.
MaxReadLen == 2

\* Inbound buffers of up to this many bytes are skipped through.
MaxInbuf == 4

\* Flushes of up to this many queued bytes are tried.
MaxOut == 4

\* Fatal signals up to this one are tried (the host has 64).
MaxExitSig == 64

\* Open-flag words up to this one are tried.
MaxFlags == 4100

\* Host errno numbers up to this one are tried.
MaxErrno == 31

\* qXfer reads at offsets and of lengths up to this one are tried.
MaxOffset == 5

\* Memory reads of up to this many bytes are tried.
MaxMemLen == 2

\* Register files of up to this many registers are tried.
MaxRegs == 2

\* Thread lists of up to this many threads are tried.
MaxThreads == 2

\* Thread ids of the debugged thread group and of others; tids and pids of
\* one, two and three hexadecimal digits, and the wildcard ALL.
FormatThreads ==
    {GdbThreadId(1, 1), GdbThreadId(1, 26), GdbThreadId(1, 300), GdbThreadId(2, 3),
     GdbThreadId(257, 10), ALL}

FormatSigs == {None} \cup {Some(n) : n \in (-1)..MaxSig}

FormatWatchAddrs == {0, 9, 255, 4096}

\* Binary data: every single byte, and pairs of bytes that need escaping,
\* that look like an escaped byte, or that are plain.
FormatData ==
    {<<>>} \cup {<<b>> : b \in 0..255}
      \cup {<<a, b>> : a, b \in {0, 3, 35, 36, 42, 93, 125, 255}}

\* Packet payloads: empty, of sum below 16, of sum 256 and above, and the
\* prefix and data of a binary packet.
FormatPayloads ==
    {<<>>, <<3>>, <<15>>, <<16>>, B(<<"O", "K">>), <<255, 1>>, <<255, 255, 2>>,
     <<255, 255>>, <<128, 128, 10>>} \cup {<<a, b>> : a, b \in {35, 36, 42, 125, 200}}

\* The connection a reply to a request of kind t finds, in multiprocess mode
\* or not; its writes are never cut short.
Replying(multi, t) ==
    [Cur(1, ReadBufSize, -1) EXCEPT !.mp = multi, !.req = MakeRequest(t, ANY)]

\* The functions keep no state between their applications: each is applied
\* to the connection as it is constructed.
Formatted(f) ==
    /\ Idle
    /\ fmt = NoFormat
    /\ fmt' = f
    /\ UNCHANGED <<req, resume_thread, query_thread, no_ack, multiprocess_supported_,
                   inbuf, outbuf, connection_alive_, panicked, sock_in, sock, waiting,
                   last, io_log, wire, queued, rx_log>>

FormatSignum ==
    fmt = NoFormat /\ \E sig \in FormatSigs :
        Formatted(Format("to_gdb_signum", FALSE, <<>>, sig, 0, <<>>, <<>>, <<>>,
                         to_gdb_signum(sig)))

FormatStopReply ==
    fmt = NoFormat /\ \E multi \in BOOLEAN, thread \in FormatThreads, sig \in {None, Some(5), Some(11), Some(40)},
       watch \in FormatWatchAddrs :
        Formatted(Format("send_stop_reply_packet", multi, <<thread>>, sig, watch, <<>>, <<>>,
                         send_stop_reply_packet(Replying(multi, "DREQ_GET_STOP_REASON"),
                                                thread, sig, watch).queued, 0))

FormatCurrentThread ==
    fmt = NoFormat /\ \E multi \in BOOLEAN, thread \in FormatThreads :
        Formatted(Format("reply_get_current_thread", multi, <<thread>>, None, 0, <<>>, <<>>,
                         reply_get_current_thread(Replying(multi, "DREQ_GET_CURRENT_THREAD"),
                                                  thread).wire, 0))

FormatThreadList ==
    fmt = NoFormat /\ \E multi \in BOOLEAN, n \in 0..MaxThreads :
        \E threads \in [1..n -> FormatThreads] :
            Formatted(Format("reply_get_thread_list", multi, threads, None, 0, <<>>, <<>>,
                             reply_get_thread_list(Replying(multi, "DREQ_GET_THREAD_LIST"),
                                                   threads).wire, 0))

FormatBinaryPacket ==
    fmt = NoFormat /\ \E pfx \in {<<>>, B(<<"b">>)}, data \in FormatData :
        Formatted(Format("write_binary_packet", FALSE, <<>>, None, 0, pfx, data,
                         write_binary_packet(Replying(FALSE, "DREQ_GET_MEM"), pfx,
                                             data).queued, 0))

FormatPacket ==
    fmt = NoFormat /\ \E data \in FormatPayloads :
        Formatted(Format("write_packet_bytes", FALSE, <<>>, None, 0, <<>>, data,
                         write_packet_bytes(Replying(FALSE, "DREQ_GET_MEM"), data).queued, 0))

\* Registers: undefined ones, byte arrays, and scalars of each width whose
\* declared size is the width of the scalar or less.
FormatRegisters ==
    {GdbRegisterValue(FALSE, 0, "Value8", 0), GdbRegisterValue(FALSE, 4, "Value8", 0),
     GdbRegisterValue(TRUE, 0, "Value", <<>>), GdbRegisterValue(TRUE, 3, "Value", <<1, 171, 0>>),
     GdbRegisterValue(TRUE, 10, "Value", <<0, 1, 2, 3, 4, 5, 6, 7, 254, 255>>),
     GdbRegisterValue(TRUE, 1, "Value1", 171),
     GdbRegisterValue(TRUE, 2, "Value2", 258), GdbRegisterValue(TRUE, 1, "Value2", 7),
     GdbRegisterValue(TRUE, 4, "Value4", 305419896), GdbRegisterValue(TRUE, 2, "Value4", 258),
     GdbRegisterValue(TRUE, 8, "Value8", 305419896), GdbRegisterValue(TRUE, 4, "Value8", 5)}

FormatRegs ==
    fmt = NoFormat /\ \E n \in 0..MaxRegs :
        \E file \in [1..n -> FormatRegisters] :
            Formatted(Format("reply_get_regs", FALSE, <<>>, None, 0, <<>>, file,
                             reply_get_regs(Replying(FALSE, "DREQ_GET_REGS"), file).wire, 0))

\* A memory-read request for len bytes: the request of GdbRequest::new with
\* the length the packet asked for in its Mem payload.
MemRequest(len) == [mem |-> [len |-> len]] @@ GdbRequest_new("DREQ_GET_MEM")

FormatMem ==
    fmt = NoFormat /\ \E len \in 0..MaxMemLen, mem \in {<<>>, <<0>>, <<171, 5>>, <<1, 2, 255>>} :
        Formatted(Applied("reply_get_mem", <<len, mem>>,
                          reply_get_mem([Replying(FALSE, "DREQ_GET_MEM")
                                           EXCEPT !.req = MemRequest(len)], mem)))

\* The data of a qXfer object, some of it in need of escaping.
FormatObjects == {<<>>, <<7>>, <<1, 2, 3>>, <<35, 0, 125, 9>>}

\* A qXfer read of the bytes from offset to offset + len of an object: the
\* engine hands the whole object to the reply operation, and
\* write_xfer_response is given the object and the window.
FormatXfer ==
    fmt = NoFormat /\ \E data \in FormatObjects, offset \in 0..MaxOffset, len \in 0..MaxOffset :
        \/ Formatted(Applied("write_xfer_response", <<data, offset, len>>,
                             write_xfer_response(Replying(FALSE, "DREQ_GET_AUXV"),
                                                 data, offset, len)))
        \/ Formatted(Applied("reply_get_auxv", <<data, offset, len>>,
                             reply_get_auxv(Replying(FALSE, "DREQ_GET_AUXV"), data)))
        \/ Formatted(Applied("reply_get_exec_file", <<data, offset, len>>,
                             reply_get_exec_file(Replying(FALSE, "DREQ_GET_EXEC_FILE"), data)))
        \/ Formatted(Applied("reply_read_siginfo", <<data, offset, len>>,
                             reply_read_siginfo(Replying(FALSE, "DREQ_READ_SIGINFO"), data)))

\* The errno of a file operation: none, every number up to MaxErrno (all of
\* the table but ENAMETOOLONG among them), ENAMETOOLONG, and 91, which is
\* ENAMETOOLONG to the peer and no entry of the table on the host.
FormatErrnos == 0..MaxErrno \cup {libc.ENAMETOOLONG, 91}

\* The four file replies; args are the result on success, the errno, and the
\* bytes read.
FormatFile ==
    fmt = NoFormat /\ \E err \in FormatErrnos, fd \in {0, 5, 26, 300}, bytes \in FormatObjects :
        \/ Formatted(Applied("reply_setfs", <<0, err, <<>>>>,
                             reply_setfs(Replying(FALSE, "DREQ_FILE_SETFS"), err)))
        \/ Formatted(Applied("reply_open", <<fd, err, <<>>>>,
                             reply_open(Replying(FALSE, "DREQ_FILE_OPEN"), fd, err)))
        \/ Formatted(Applied("reply_pread", <<Len(bytes), err, bytes>>,
                             reply_pread(Replying(FALSE, "DREQ_FILE_PREAD"), bytes, err)))
        \/ Formatted(Applied("reply_close", <<0, err, <<>>>>,
                             reply_close(Replying(FALSE, "DREQ_FILE_CLOSE"), err)))

\* The flag word of a vFile:open: every word up to MaxFlags, words with a
\* higher bit set, and negative words.
FormatOpenFlags ==
    fmt = NoFormat /\ \E flags \in (-4)..MaxFlags \cup {8193, 65538, 1048576} :
        LET r == gdb_open_flags_to_system_flags(flags) IN
        Formatted([Format("gdb_open_flags_to_system_flags", FALSE, <<>>, <<>>, 0, <<>>,
                          <<>>, <<>>, r.ret) EXCEPT ![10] = <<flags>>, ![11] = r.panic])

\* reply_select_thread on a connection whose selected threads are q and r and
\* whose request is a thread selection of the given kind and target; args
\* are ok, the kind, the target, q and r before the call and q and r after it.
FormatSelectThread ==
    fmt = NoFormat /\ \E ok \in BOOLEAN, kind \in {"DREQ_SET_QUERY_THREAD", "DREQ_SET_CONTINUE_THREAD"},
       target \in FormatThreads \cup {ANY}, q \in FormatThreads, r \in FormatThreads :
        LET s == [Cur(1, ReadBufSize, -1) EXCEPT !.req = MakeRequest(kind, target),
                                                 !.query_thread = q, !.resume_thread = r]
            t == reply_select_thread(s, ok)
        IN Formatted(Applied("reply_select_thread",
                             <<ok, kind, target, q, r, t.query_thread, t.resume_thread,
                               t.req.type_>>, t))

\* notify_exit_code for every exit code (a u8) and notify_exit_signal for
\* every signal of the host, on a resume request, an interrupt request and a
\* request of another kind; args are the number, the kind, the selected
\* threads before the call, and the selected threads and the request after it.
FormatExit ==
    fmt = NoFormat /\ \E kind \in {"DREQ_CONT", "DREQ_INTERRUPT", "DREQ_GET_MEM"},
       q \in {DefaultThreadId, GdbThreadId(1, 26)} :
        LET s == [Replying(FALSE, kind) EXCEPT !.query_thread = q,
                                               !.resume_thread = GdbThreadId(1, 1)]
            Exit(op, n, t) ==
                Formatted(Applied(op, <<n, kind, q, s.resume_thread, t.query_thread,
                                        t.resume_thread, t.req.type_>>, t))
        IN \/ \E code \in 0..255 : Exit("notify_exit_code", code, notify_exit_code(s, code))
           \/ \E sig \in 1..MaxExitSig :
                  Exit("notify_exit_signal", sig, notify_exit_signal(s, sig))

\* The reply operations called with a failure outcome.
FailureOps ==
    {"reply_select_thread", "reply_set_reg", "reply_watchpoint_request", "reply_get_mem",
     "reply_get_auxv", "reply_get_exec_file", "reply_read_siginfo", "reply_setfs",
     "reply_open", "reply_pread", "reply_close", "notify_no_such_thread",
     "notify_restart_failed"}

\* The call of op with a failure outcome (ok = false, no data, the errno err)
\* on the connection s, whose request is made one that op accepts.
FailureReply(op, err, s) ==
    LET on(kind) == [s EXCEPT !.req = MakeRequest(kind, GdbThreadId(1, 300))] IN
    CASE op = "reply_select_thread" -> reply_select_thread(on("DREQ_SET_QUERY_THREAD"), FALSE)
      [] op = "reply_set_reg" -> reply_set_reg(on("DREQ_SET_REG"), FALSE)
      [] op = "reply_watchpoint_request" ->
             reply_watchpoint_request(on("DREQ_WATCH_FIRST"), FALSE)
      [] op = "reply_get_mem" -> reply_get_mem([s EXCEPT !.req = MemRequest(1)], <<>>)
      [] op = "reply_get_auxv" -> reply_get_auxv(on("DREQ_GET_AUXV"), <<>>)
      [] op = "reply_get_exec_file" -> reply_get_exec_file(on("DREQ_GET_EXEC_FILE"), <<>>)
      [] op = "reply_read_siginfo" -> reply_read_siginfo(on("DREQ_READ_SIGINFO"), <<>>)
      [] op = "reply_setfs" -> reply_setfs(on("DREQ_FILE_SETFS"), err)
      [] op = "reply_open" -> reply_open(on("DREQ_FILE_OPEN"), -1, err)
      [] op = "reply_pread" -> reply_pread(on("DREQ_FILE_PREAD"), <<>>, err)
      [] op = "reply_close" -> reply_close(on("DREQ_FILE_CLOSE"), err)
      [] op = "notify_no_such_thread" ->
             notify_no_such_thread(on("DREQ_SET_QUERY_THREAD"), TRUE)
      [] op = "notify_restart_failed" -> notify_restart_failed(on("DREQ_RESTART"))

\* A failure reply, and the get_request after it.  The peer has its next
\* packet, a stop-reason query, on the way; it has kept the connection open,
\* or reset it, or resets it once the stub has written one more byte.  args
\* are the operation, the errno, the alive flag and the selected threads
\* before the call, the same and the kind of the request after it, the bytes
\* written, and the panic and the kind of the request of the get_request.
FormatFailure ==
    fmt = NoFormat /\ \E op \in FailureOps, err \in {libc.ENOENT, 3}, peer \in {"open", "reset"},
       bud \in Budgets, q \in {DefaultThreadId, GdbThreadId(1, 26)} :
        LET s == [Cur(1, 2, bud) EXCEPT !.sock = peer, !.sock_in = PacketBytes(B(<<"?">>)),
                                        !.query_thread = q,
                                        !.resume_thread = GdbThreadId(1, 1)]
            t == FailureReply(op, err, s)
            g == get_request([t EXCEPT !.consumed = FALSE, !.io = {}, !.wire = <<>>,
                                       !.queued = t.outbuf, !.rchunk = ReadBufSize,
                                       !.budget = -1])
        IN Formatted(Applied("failure",
                             <<op, err, s.alive, q, s.resume_thread, t.alive, t.query_thread,
                               t.resume_thread, t.req.type_, t.wire, g.panic, g.req.type_>>,
                             t))

\* read_data_once with part of a packet buffered or nothing, when the peer
\* has sent bytes, closed the connection or reset it; read() returns up to
\* rchunk bytes.  args are inbuf before the call, what the socket holds, the
\* state of the peer, and the alive flag, inbuf, outbuf and whether the call
\* still waits after it.
FormatReadOnce ==
    fmt = NoFormat /\ \E buffered \in {<<>>, B(<<"$">>), B(<<"$", "?", "#">>)},
       sent \in {<<>>, B(<<"3">>), B(<<"?", "#", "3", "f">>)},
       peer \in {"open", "closed", "reset"}, rchunk \in {1, 3, ReadBufSize} :
        LET s == [Cur(rchunk, 1, -1) EXCEPT !.inbuf = buffered, !.sock_in = sent,
                                            !.sock = peer]
            t == read_data_once(s)
        IN Formatted(Applied("read_data_once",
                             <<buffered, sent, peer, t.alive, t.inbuf, t.outbuf, t.blocked>>,
                             t))

\* write_flush with up to MaxOut bytes queued, a write() that takes up to
\* wchunk bytes at a time, and a peer that keeps the connection open, has
\* reset it, or resets it after taking budget more bytes.  args are outbuf
\* before the call, wchunk, the budget, the state of the peer, and the alive
\* flag, outbuf and the bytes written after it.
FormatFlush ==
    fmt = NoFormat /\ \E n \in 0..MaxOut, wchunk \in 1..MaxOut, budget \in (-1)..MaxOut,
       peer \in {"open", "reset"} :
        LET out == SubSeq(B(<<"$", "O", "K", "#", "9", "a">>), 1, n)
            s == [Cur(1, wchunk, budget) EXCEPT !.outbuf = out, !.queued = out,
                                                !.sock = peer]
            t == write_flush(s)
        IN Formatted(Applied("write_flush",
                             <<out, wchunk, budget, peer, t.alive, t.outbuf, t.wire>>, t))

\* process_bpacket on the payload after the 'b', with no request current and
\* the selected threads q and r.  args are the payload, q and r before the
\* call, the request, q and r after it, and what it returns.
FormatBPacket ==
    fmt = NoFormat /\ \E payload \in {<<>>, B(<<"c">>), B(<<"s">>), B(<<"x">>), B(<<"C">>), B(<<"c", "s">>),
                     B(<<"s", "0">>), B(<<"k">>)},
       q \in FormatThreads, r \in FormatThreads \cup {ANY} :
        LET s == [Cur(1, ReadBufSize, -1) EXCEPT !.query_thread = q, !.resume_thread = r]
            t == process_bpacket(s, payload)
        IN Formatted(Applied("process_bpacket",
                             <<payload, q, r, t.req, t.query_thread, t.resume_thread, t.ret>>,
                             t))

\* skip_to_packet_start, twice in a row, on every inbuf of up to MaxInbuf
\* bytes out of '$', the interrupt character, '+' and 'a'.  args are inbuf
\* before the calls, inbuf and the flag returned after the first call, and
\* the same after the second.
FormatSkip ==
    fmt = NoFormat /\ \E n \in 0..MaxInbuf :
        \E buf \in [1..n -> {36, INTERRUPT_CHAR, 43, 97}] :
            LET s == [Cur(1, ReadBufSize, -1) EXCEPT !.inbuf = buf]
                t == skip_to_packet_start(s)
                u == skip_to_packet_start(t)
            IN Formatted(Applied("skip_to_packet_start",
                                 <<buf, t.inbuf, skip_to_packet_start_ret(s.inbuf),
                                   u.inbuf, skip_to_packet_start_ret(t.inbuf)>>, u))

FormatReg ==
    fmt = NoFormat /\ \E reg \in FormatRegisters :
        Formatted(Applied("reply_get_reg", <<reg>>,
                          reply_get_reg(Replying(FALSE, "DREQ_GET_REG"), reg)))

\* GdbRequest::new for every kind of the enumeration; args are the kind
\* asked for and the kind, the payload variant, the target and the
\* suppress-stop flag of the result; the call panics in the `_` arm.
FormatNewRequest ==
    fmt = NoFormat /\ \E t \in GdbRequestType :
        LET r == GdbRequest_new(t) IN
        Formatted([Format("GdbRequest::new", FALSE, <<>>, <<>>, 0, <<>>, <<>>, <<>>, 0)
                     EXCEPT ![10] = <<t, r.type_, r.value, r.target,
                                      r.suppress_debugger_stop>>,
                            ![11] = IF r.value = "panic" THEN "Unknown DREQ" ELSE ""])

\* The reply to a maintenance command: no text, plain text, and text with a
\* '#', a '$', a '}' or a '*' in it.
FormatRdCmd ==
    fmt = NoFormat /\ \E text \in {<<>>, B(<<"O", "K">>), B(<<"a", "#", "b">>), B(<<"$", "1">>),
                  B(<<"a", "}">>), B(<<"2", "*", "3">>)} :
        Formatted(Applied("reply_rd_cmd", <<text>>,
                          reply_rd_cmd(Replying(FALSE, "DREQ_RD_CMD"), text)))

\* read_bytes_fallible for buffers of up to MaxReadLen bytes, with or without
\* a local mapping, with the mem fd open or not, and every sequence of up to
\* MaxReadLen + 1 results of pread64 (an error, nothing, 1 or 2 bytes).  args
\* are the inputs, then the result, its count, the bytes copied into buf and
\* whether a read failed.
FormatReadBytes ==
    fmt = NoFormat /\ \E len \in 0..MaxReadLen, local \in BOOLEAN, fd_open \in BOOLEAN, reopens \in BOOLEAN,
       k \in 0..(MaxReadLen + 1) :
        \E ptraced \in 0..len, preads \in [1..k -> {-1, 0, 1, 2}] :
            LET r == read_bytes_fallible(len, local, fd_open, ptraced, preads, reopens) IN
            Formatted([Format("read_bytes_fallible", FALSE, <<>>, <<>>, 0, <<>>, <<>>,
                              <<>>, 0)
                         EXCEPT ![10] = <<len, local, fd_open, ptraced, preads, reopens,
                                          r.res, r.n, r.copied, r.erred>>])

FormatWaitpid ==
    /\ fmt = NoFormat
    /\ \E n \in 0..MaxStops :
        \E events \in [1..n -> {<<<<"request", "PTRACE_INTERRUPT">>, TRUE, FALSE>>}
                                 \cup (WaitStatuses \X BOOLEAN \X BOOLEAN)] :
            Formatted([Format("did_waitpid", FALSE, <<>>, <<>>, 0, <<>>, <<>>, <<>>, 0)
                         EXCEPT ![10] = <<events,
                                          TaskEvents(WaitTask(0, <<"none", "none">>, "0",
                                                              FALSE, FALSE), events)>>])

FormatNext ==
    \/ FormatWaitpid
    \/ FormatReadBytes
    \/ FormatRdCmd
    \/ FormatNewRequest
    \/ FormatReg
    \/ FormatSkip
    \/ FormatBPacket
    \/ FormatFlush
    \/ FormatReadOnce
    \/ FormatFailure
    \/ FormatExit
    \/ FormatSelectThread
    \/ FormatOpenFlags
    \/ FormatFile
    \/ FormatXfer
    \/ FormatMem
    \/ FormatRegs
    \/ FormatSignum
    \/ FormatStopReply
    \/ FormatCurrentThread
    \/ FormatThreadList
    \/ FormatBinaryPacket
    \/ FormatPacket

FormatSpec == Init /\ [][FormatNext]_vars

----------------------------------------------------------------------------
(* Properties                                                              *)

\* C1: request_needs_immediate_response is false exactly for DREQ_NONE and
\* DREQ_CONT, and a get_request made while the current request is of another
\* kind (other than DREQ_RESTART) fails the assertion without any system call
\* and without touching the request, the buffers or the socket.
C1_ImmediateResponseGuard ==
    /\ \A t \in GdbRequestType :
          request_needs_immediate_response([type_ |-> t])
            = (t \notin {"DREQ_NONE", "DREQ_CONT"})
    /\ (last.op = "get_request" /\ ~last.resumed
          /\ last.type_ \notin {"DREQ_NONE", "DREQ_CONT", "DREQ_RESTART"})
          => /\ panicked # ""
             /\ ~waiting
             /\ io_log = {}
             /\ last.kept = AllKept

C1_Witness ==
    /\ last.op = "get_request"
    /\ last.type_ = "DREQ_GET_STOP_REASON"
    /\ panicked # ""
    /\ io_log = {}

\* The operations that answer a request and assert its kind.
AnsweringOps ==
    {"reply_get_stop_reason", "reply_select_thread", "reply_set_reg",
     "reply_watchpoint_request", "reply_detach", "notify_stop", "notify_exit_code",
     "notify_exit_signal", "notify_restart_failed", "notify_restart"}

Answers ==
    [op \in AnsweringOps |->
        CASE op = "reply_get_stop_reason" -> {"DREQ_GET_STOP_REASON"}
          [] op = "reply_select_thread" -> {"DREQ_SET_CONTINUE_THREAD", "DREQ_SET_QUERY_THREAD"}
          [] op = "reply_set_reg" -> {"DREQ_SET_REG"}
          [] op = "reply_watchpoint_request" -> {"DREQ_WATCH_FIRST", "DREQ_WATCH_LAST"}
          [] op = "reply_detach" -> {"DREQ_DETACH"}
          [] op = "notify_restart_failed" -> {"DREQ_RESTART"}
          [] op = "notify_restart" -> {"DREQ_RESTART"}
          [] OTHER -> {"DREQ_CONT", "DREQ_INTERRUPT"}]

\* C3 (as stated): whenever an operation is called while the current request
\* is not of a kind it answers, the assertion fails and no packet is written;
\* in particular reply_detach is accepted for DREQ_DETACH only.
C3_MismatchAlwaysAsserts ==
    (last.op \in AnsweringOps /\ last.type_ \notin Answers[last.op])
       => /\ panicked # ""
          /\ queued = <<>>
          /\ wire = <<>>

\* C4: after a notify_stop for a thread of the debugged thread group, the
\* request is consumed and resume_thread = query_thread = ANY if the request
\* answered was a backward continue, = the stopped thread if it was a forward
\* continue or an interrupt.
C4_ThreadsAfterStop ==
    (last.op = "notify_stop" /\ last.arg.pid = tgid /\ panicked = "")
       => /\ last.consumed
          /\ req = GdbRequest_new("DREQ_NONE")
          /\ resume_thread = query_thread
          /\ resume_thread = IF last.type_ = "DREQ_CONT" /\ last.dir = "RunBackward"
                             THEN ANY ELSE last.arg

C4_Witness ==
    /\ last.op = "notify_stop"
    /\ last.arg.pid = tgid
    /\ last.type_ = "DREQ_CONT"
    /\ last.dir = "RunBackward"
    /\ panicked = ""
    /\ resume_thread = ANY
    /\ wire # <<>>

\* C5: a notify_stop for a thread of another thread group, made while a
\* continue request is current, appends nothing to outbuf, makes no system
\* call and leaves the request, the threads and everything else as they
\* were; the get_request that follows it, when no packet start is buffered
\* and the socket has nothing to report, returns that continue request.
C5_ForeignStopSwallowed ==
    /\ (last.op = "notify_stop" /\ last.type_ = "DREQ_CONT" /\ last.arg.pid # tgid)
          => /\ panicked = ""
             /\ ~last.consumed
             /\ queued = outbuf
             /\ wire = <<>>
             /\ io_log = {}
             /\ last.kept = AllKept
    /\ (last.op = "get_request" /\ ~last.resumed /\ last.prev = "notify_stop (ignored)"
          /\ last.type_ = "DREQ_CONT" /\ last.input \in {"none", "junk"})
          => /\ panicked = ""
             /\ ~waiting
             /\ "req" \in last.kept
             /\ req.type_ = "DREQ_CONT"

C5_Witness ==
    /\ last.op = "get_request"
    /\ last.prev = "notify_stop (ignored)"
    /\ last.type_ = "DREQ_CONT"
    /\ last.input = "none"
    /\ req.type_ = "DREQ_CONT"
    /\ panicked = ""

\* C6 (as stated): notify_restart leaves resume_thread = query_thread = ANY,
\* and the get_request that finds the restart request current, or that
\* follows the engine's notify_restart, returns without any system call a
\* DREQ_GET_STOP_REASON request whose target is the query thread.
C6_RestartSynthesisesStopReason ==
    /\ (last.op = "notify_restart" /\ panicked = "")
          => resume_thread = ANY /\ query_thread = ANY
    /\ (last.op = "get_request" /\ ~last.resumed
          /\ (last.type_ = "DREQ_RESTART" \/ last.prev = "notify_restart"))
          => /\ panicked = ""
             /\ ~waiting
             /\ io_log = {}
             /\ req.type_ = "DREQ_GET_STOP_REASON"
             /\ req.target = query_thread
             /\ resume_thread = ANY /\ query_thread = ANY

\* C7 (as stated): a get_request on a dead connection returns a DREQ_DETACH
\* request: it does not fail, does not wait and returns no other kind.
C7_DeadConnectionYieldsDetach ==
    (last.op = "get_request" /\ ~connection_alive_)
       => /\ panicked = ""
          /\ ~waiting
          /\ req.type_ = "DREQ_DETACH"

\* C8 (as stated): a call made after the connection was marked dead makes no
\* system call on the socket.
C8_NoIoAfterDeath ==
    (last.op # "new" /\ ~last.alive) => io_log = {}

\* p is a prefix of s.
IsPrefix(p, s) == Len(p) <= Len(s) /\ SubSeq(s, 1, Len(p)) = p

\* C9 (as stated): when an operation that consumes the request returns,
\* outbuf is empty and the bytes written are all the bytes queued, in order.
C9_AllQueuedBytesSent ==
    (last.consumed /\ panicked = "") => outbuf = <<>> /\ wire = queued

\* C9 (amended): when an operation that consumes the request returns, outbuf
\* is empty and the bytes written are a prefix of the bytes queued, in order:
\* all of them if the connection is still alive, possibly ending inside a
\* packet if a write failed.
C9_QueuedBytesSentUnlessWriteFails ==
    (last.consumed /\ panicked = "")
       => /\ outbuf = <<>>
          /\ IsPrefix(wire, queued)
          /\ connection_alive_ => wire = queued

C9_Witness ==
    /\ last.consumed
    /\ panicked = ""
    /\ ~connection_alive_
    /\ wire # <<>>
    /\ wire # queued

\* C10: a get_request made while a continue request is current, inbuf is
\* empty and the socket has nothing to report returns without waiting, after
\* one poll that does not wait, and leaves the request (direction and actions
\* included) and everything else as it was.
C10_ContinueIsReturnedAgain ==
    (last.op = "get_request" /\ ~last.resumed /\ last.type_ = "DREQ_CONT"
       /\ last.input = "none")
       => /\ panicked = ""
          /\ ~waiting
          /\ io_log = {"poll_nowait"}
          /\ wire = <<>>
          /\ last.kept = AllKept
          /\ req.type_ = "DREQ_CONT"

C10_Witness ==
    /\ last.op = "get_request"
    /\ last.prev = "get_request"
    /\ last.type_ = "DREQ_CONT"
    /\ last.dir = "RunBackward"
    /\ last.input = "none"
    /\ req.type_ = "DREQ_CONT"
    /\ req.run_direction = "RunBackward"
    /\ ~waiting

\* The last application of a formatting function, by name.
F ==
    [op |-> fmt[1], mp |-> fmt[2], threads |-> fmt[3], sig |-> fmt[4], watch |-> fmt[5],
     pfx |-> fmt[6], data |-> fmt[7], out |-> fmt[8], val |-> fmt[9], args |-> fmt[10],
     panic |-> fmt[11]]

\* The payload of a framed packet: what is between '$' and '#hh'.
PayloadOf(packet) == SubSeq(packet, 2, Len(packet) - 3)

\* How many times the byte b occurs in bytes.
Count(bytes, b) == Cardinality({i \in 1..Len(bytes) : bytes[i] = b})

\* The thread ids a packet names: one in a stop reply and in a current-thread
\* reply, the items of a thread-list reply (none in "l", "m" or "").
IdsNamed(op, payload) ==
    IF op # "reply_get_thread_list" THEN 1
    ELSE IF Len(payload) > 1 THEN Count(payload, 44) + 1 ELSE 0

\* C11: in a current-thread reply, a thread-list reply and a stop reply every
\* thread id is written with the prefix 'p', the pid and '.' when multiprocess
\* mode is on, and without it when it is off: the packet has one 'p' and one
\* '.' per thread id it names, or none at all.
C11_PidPrefixIffMultiprocess ==
    F.op \in {"send_stop_reply_packet", "reply_get_current_thread", "reply_get_thread_list"}
      => LET payload == PayloadOf(F.out)
             prefixes == IF F.mp THEN IdsNamed(F.op, payload) ELSE 0
         IN /\ F.out = PacketBytes(payload)
            /\ Count(payload, 112) = prefixes
            /\ Count(payload, 46) = prefixes

C11_Witness ==
    /\ F.op = "reply_get_thread_list"
    /\ F.mp
    /\ F.threads = <<GdbThreadId(1, 26), GdbThreadId(1, 300)>>
    /\ PayloadOf(F.out) = B(<<"m", "p", "0", "1", ".", "1", "a", ",",
                                "p", "0", "1", ".", "1", "2", "c">>)

\* C12: every stop reply the stub queues, from notify_stop or from
\* reply_get_stop_reason, names a thread of the debugged thread group (its pid
\* is tgid), whatever thread the engine passed.
C12_EmittedThreadsBelongToTgid ==
    (last.op \in {"notify_stop", "reply_get_stop_reason"} /\ queued # <<>>)
      => last.arg.pid = tgid

\* A selected thread is ANY, ALL, a thread of the debugged thread group in
\* multiprocess mode, or a thread without a pid (-1) in single-process mode.
SelectedThreadOk(t) ==
    \/ t \in {ANY, ALL}
    \/ multiprocess_supported_ /\ t.pid = tgid
    \/ ~multiprocess_supported_ /\ t.pid = -1

\* C13: in every reachable state resume_thread and query_thread are each ANY,
\* ALL, a thread id whose pid is tgid when multiprocess mode has been
\* negotiated, or a thread id whose pid is -1 in single-process mode.
C13_SelectedThreadsWellFormed ==
    SelectedThreadOk(resume_thread) /\ SelectedThreadOk(query_thread)

\* The positions in the bytes queued by the last step that hold '+' or '-'.
AckPositions == {i \in 1..Len(queued) : queued[i] \in {43, 45}}

RECURSIVE Unescape(_)
\* The receiver's rule: '}' followed by x stands for x xor 0x20.
Unescape(bytes) ==
    IF bytes = <<>> THEN <<>>
    ELSE IF bytes[1] = 125 /\ Len(bytes) > 1
         THEN <<Xor32(bytes[2])>> \o Unescape(Drop(bytes, 2))
    ELSE <<bytes[1]>> \o Unescape(Drop(bytes, 1))

\* The bytes write_binary_packet must escape.
Special == {35, 36, 125, 42}

\* C15: the payload write_binary_packet queues is the prefix followed by bytes
\* that unescape to the data; '#', '$', '}' and '*' are escaped (none of '#',
\* '$', '*' is left in the payload, and the payload is longer than the data by
\* the number of those four bytes in it), every other byte is written as it is.
C15_BinaryEscapeRoundTrip ==
    F.op = "write_binary_packet"
      => LET payload == PayloadOf(F.out)
             body == Drop(payload, Len(F.pfx))
         IN /\ Take(payload, Len(F.pfx)) = F.pfx
            /\ Unescape(body) = F.data
            /\ \A i \in 1..Len(body) : body[i] \notin {35, 36, 42}
            /\ Len(body) = Len(F.data)
                             + Cardinality({i \in 1..Len(F.data) : F.data[i] \in Special})
            /\ \A b \in 0..255 : (F.data = <<b>> /\ b \notin Special) => body = <<b>>

C15_Witness ==
    /\ F.op = "write_binary_packet"
    /\ F.pfx = B(<<"b">>)
    /\ F.data = <<42, 125>>
    /\ PayloadOf(F.out) = <<98, 125, 10, 125, 93>>

RECURSIVE Sum(_)
\* The sum of bytes, as an integer.
Sum(bytes) == IF bytes = <<>> THEN 0 ELSE bytes[1] + Sum(Drop(bytes, 1))

\* The two lowercase hexadecimal digits of a byte.
TwoHexDigits(n) ==
    LET digit(d) == IF d < 10 THEN 48 + d ELSE 97 + (d - 10)
    IN <<digit(n \div 16), digit(n % 16)>>

\* The operations of FormatSpec that queue one packet.
PacketOps ==
    {"send_stop_reply_packet", "reply_get_current_thread", "reply_get_thread_list",
     "write_binary_packet", "write_packet_bytes"}

\* C16: every packet queued is '$', the payload, '#' and exactly two lowercase
\* hexadecimal digits: those of the sum of the payload bytes as they are
\* transmitted, modulo 256 (the sum wraps, a value below 16 is zero-padded).
C16_PacketFraming ==
    F.op \in PacketOps
      => LET n == Len(F.out)
             payload == PayloadOf(F.out)
         IN /\ n >= 4
            /\ F.out[1] = 36
            /\ F.out[n - 2] = 35
            /\ SubSeq(F.out, n - 1, n) = TwoHexDigits(Sum(payload) % 256)
            /\ F.op = "write_packet_bytes" => payload = F.data

C16_Witness ==
    /\ F.op = "write_packet_bytes"
    /\ F.data = <<128, 128, 10>>
    /\ F.out = <<36, 128, 128, 10, 35, 48, 97>>

\* C17 as claimed: the checksum of a binary packet is the sum of the prefix
\* and the data before escaping, modulo 256.
C17_ChecksumOverUnescapedData ==
    F.op = "write_binary_packet"
      => SubSeq(F.out, Len(F.out) - 1, Len(F.out))
           = TwoHexDigits((Sum(F.pfx) + Sum(F.data)) % 256)

\* C17, amended: the checksum of a binary packet is the sum, modulo 256, of
\* the prefix and the escaped bytes as they are transmitted: the sum of the
\* prefix and the data plus 93 ('}' less 0x20) for each byte that is escaped.
C17_ChecksumOverEscapedBytes ==
    F.op = "write_binary_packet"
      => LET escaped == Cardinality({i \in 1..Len(F.data) : F.data[i] \in Special})
         IN SubSeq(F.out, Len(F.out) - 1, Len(F.out))
              = TwoHexDigits((Sum(F.pfx) + Sum(F.data) + 93 * escaped) % 256)

C17_Witness ==
    /\ F.op = "write_binary_packet"
    /\ F.pfx = <<>>
    /\ F.data = <<35, 36>>
    /\ F.out = <<36, 125, 3, 125, 4, 35>> \o TwoHexDigits(1)

\* The host signal numbers the translation is defined on.
SignalDomain == 1..127

\* C18: to_gdb_signum is injective on the host signals 1..127: no other signal
\* of that range has the protocol number of a given one, and that number is
\* neither 0 nor 143; every signal number outside the range maps to 143.  (The
\* number 0 is not a signal: it stands, like None, for "no signal".)
C18_SignumInjective ==
    (F.op = "to_gdb_signum" /\ F.sig # None /\ F.sig[1] # 0)
      => LET n == F.sig[1] IN
         /\ n \in SignalDomain
               => /\ F.val \notin {0, 143}
                  /\ \A m \in SignalDomain \ {n} : to_gdb_signum(Some(m)) # F.val
         /\ n \notin SignalDomain => F.val = 143

C18_Witness ==
    /\ F.op = "to_gdb_signum"
    /\ F.sig = Some(63)
    /\ F.val = 75
    /\ to_gdb_signum(Some(61)) = 73

\* The protocol numbers of the linux-x86 signals 1 (HUP) to 31 (SYS), in the
\* order of the host numbers: HUP INT QUIT ILL TRAP ABRT BUS FPE KILL USR1 SEGV
\* USR2 PIPE ALRM TERM STKFLT CHLD CONT STOP TSTP TTIN TTOU URG XCPU XFSZ
\* VTALRM PROF WINCH IO PWR SYS.
NamedSignalTable ==
    <<1, 2, 3, 4, 5, 6, 10, 8, 9, 30, 11, 31, 13, 14, 15, 38, 20, 19, 17, 18, 21, 22, 16,
      24, 25, 26, 27, 28, 23, 32, 12>>

\* C19: to_gdb_signum gives each named signal its listed protocol number, 77
\* for signal 32, sig + 12 for 33..63, sig + 14 for 64..127, 0 for no signal
\* (None, or the number 0) and 143 for anything else.
C19_SignumTable ==
    F.op = "to_gdb_signum"
      => F.val = IF F.sig = None THEN 0
                 ELSE LET n == F.sig[1] IN
                      CASE n = 0 -> 0
                        [] n \in 1..31 -> NamedSignalTable[n]
                        [] n = 32 -> 77
                        [] n \in 33..63 -> n + 12
                        [] n \in 64..127 -> n + 14
                        [] OTHER -> 143

C19_Witness ==
    /\ F.op = "to_gdb_signum"
    /\ F.sig = Some(10)
    /\ F.val = 30

\* C20: the payload of a stop reply is 'T', the two hexadecimal digits of the
\* protocol signal number, "thread:", the thread id and ';', followed by
\* "watch:", the watch address in hexadecimal and ';' if and only if the
\* address is not null.
C20_StopReplyFormat ==
    F.op = "send_stop_reply_packet"
      => PayloadOf(F.out)
           = <<84>> \o TwoHexDigits(to_gdb_signum(F.sig))
               \o <<116, 104, 114, 101, 97, 100, 58>>
               \o (IF F.mp THEN <<112>> \o HexI32(F.threads[1].pid) \o <<46>> ELSE <<>>)
               \o HexI32(F.threads[1].tid) \o <<59>>
               \o (IF F.watch # 0
                   THEN <<119, 97, 116, 99, 104, 58>> \o HexDigits(F.watch) \o <<59>>
                   ELSE <<>>)

\* A thread id as a packet writes it.
ThreadIdText(mp, t) ==
    (IF mp THEN <<112>> \o HexI32(t.pid) \o <<46>> ELSE <<>>) \o HexI32(t.tid)

RECURSIVE CommaSeparated(_)
\* Texts with a ',' between them and none at the end.
CommaSeparated(texts) ==
    IF texts = <<>> THEN <<>>
    ELSE IF Len(texts) = 1 THEN texts[1]
    ELSE texts[1] \o <<44>> \o CommaSeparated(Drop(texts, 1))

\* C21: the thread-list reply to an empty list is "l"; to any other list it is
\* 'm' followed by the supplied threads whose pid is tgid, in the order
\* supplied, with commas between them and none at the end: just "m" when no
\* supplied thread belongs to tgid.
C21_ThreadListReply ==
    F.op = "reply_get_thread_list"
      => PayloadOf(F.out)
           = IF F.threads = <<>> THEN <<108>>
             ELSE <<109>> \o CommaSeparated(
                                SelectSeq([i \in 1..Len(F.threads) |->
                                              IF F.threads[i].pid = tgid
                                              THEN ThreadIdText(F.mp, F.threads[i]) ELSE <<>>],
                                          LAMBDA x : x # <<>>))

RECURSIVE SizesBefore(_, _)
\* The sum of the sizes of the first k registers of a file.
SizesBefore(file, k) == IF k = 0 THEN 0 ELSE SizesBefore(file, k - 1) + file[k].size

\* The characters of lowercase hexadecimal digits.
LowerHex == (48..57) \cup (97..102)

\* C22: the register reply holds, for each register in the order supplied,
\* exactly 2 * size characters: lowercase hexadecimal digits when the
\* register is defined (those of its bytes when the value is a byte array),
\* 'x' when it is not; whatever the size and the representation of the value.
C22_RegisterReply ==
    F.op = "reply_get_regs"
      => LET payload == PayloadOf(F.out)
             file == F.data
         IN /\ Len(payload) = 2 * SizesBefore(file, Len(file))
            /\ \A k \in 1..Len(file) :
                  LET from == 2 * SizesBefore(file, k - 1)
                      part == SubSeq(payload, from + 1, from + 2 * file[k].size)
                  IN /\ \A i \in 1..Len(part) :
                           part[i] \in (IF file[k].defined THEN LowerHex ELSE {120})
                     /\ (file[k].defined /\ file[k].value = "Value")
                           => part = HexBytes(Take(file[k].v, file[k].size))

RECURSIVE PlainHex(_)
\* Two lowercase hexadecimal digits per byte, in order.
PlainHex(bytes) ==
    IF bytes = <<>> THEN <<>> ELSE TwoHexDigits(bytes[1]) \o PlainHex(Drop(bytes, 1))

\* C23: reply_get_mem does not accept data longer than the length requested
\* (it fails its assertion and writes nothing); otherwise it queues the data
\* as plain lowercase hexadecimal, two digits per byte, except that an empty
\* result for a request of nonzero length gives "E01"; an empty result for a
\* request of length zero gives the empty payload.
C23_ReplyGetMem ==
    F.op = "reply_get_mem"
      => LET len == F.args[1]
             mem == F.args[2]
         IN IF Len(mem) > len
            THEN F.panic # "" /\ F.out = <<>>
            ELSE /\ F.panic = ""
                 /\ F.out = PacketBytes(IF len > 0 /\ mem = <<>> THEN B(<<"E", "0", "1">>)
                                        ELSE PlainHex(mem))

C23_Witness ==
    /\ F.op = "reply_get_mem"
    /\ F.args = <<2, <<>>>>
    /\ F.out = PacketBytes(B(<<"E", "0", "1">>))

\* The qXfer slicing rule: the payload for the object D read at offset o
\* for l bytes.
XferSlice(D, o, l) ==
    IF o > Len(D) THEN B(<<"E", "0", "1">>)
    ELSE IF o = Len(D) THEN <<108>>
    ELSE IF o + l < Len(D) THEN <<109>> \o BinaryEscape(SubSeq(D, o + 1, o + l))
    ELSE <<108>> \o BinaryEscape(Drop(D, o))

\* C24: the reply to a qXfer read of auxv, exec-file or siginfo, for the
\* engine's data D, the offset o and the length l asked for, is "E01" if
\* o > |D|, "l" if o = |D|, 'm' and D[o .. o + l] if o + l < |D|, and 'l' and
\* D[o ..] otherwise, the data escaped; write_xfer_response computes the same.
C24_XferSlicing ==
    F.op \in {"write_xfer_response", "reply_get_auxv", "reply_get_exec_file",
              "reply_read_siginfo"}
      => F.out = PacketBytes(XferSlice(F.args[1], F.args[2], F.args[3]))

\* The closed table of protocol errno codes, by host errno.
GdbErrnoTable ==
    {<<libc.EPERM, 1>>, <<libc.ENOENT, 2>>, <<libc.EINTR, 4>>, <<libc.EBADF, 9>>,
     <<libc.EACCES, 13>>, <<libc.EFAULT, 14>>, <<libc.EBUSY, 16>>, <<libc.EEXIST, 17>>,
     <<libc.ENODEV, 19>>, <<libc.ENOTDIR, 20>>, <<libc.EISDIR, 21>>, <<libc.EINVAL, 22>>,
     <<libc.ENFILE, 23>>, <<libc.EMFILE, 24>>, <<libc.EFBIG, 27>>, <<libc.ENOSPC, 28>>,
     <<libc.ESPIPE, 29>>, <<libc.EROFS, 30>>, <<libc.ENAMETOOLONG, 91>>}

GdbErrno(err) ==
    IF \E e \in GdbErrnoTable : e[1] = err
    THEN (CHOOSE e \in GdbErrnoTable : e[1] = err)[2]
    ELSE 9999

FileOps == {"reply_setfs", "reply_open", "reply_pread", "reply_close"}

\* C25: a file reply (setfs, open, pread, close) is 'F' and the result in
\* hexadecimal on success (pread: followed by ';' and the escaped bytes read),
\* and "F-1," and the protocol errno code of the table, 9999 for an errno
\* outside it, for every nonzero host errno.
C25_FileReplies ==
    F.op \in FileOps =>
        F.out = PacketBytes(
            IF F.args[2] # 0 THEN B(<<"F", "-", "1", ",">>) \o HexDigits(GdbErrno(F.args[2]))
            ELSE IF F.op = "reply_pread"
                 THEN B(<<"F">>) \o HexDigits(F.args[1]) \o B(<<";">>) \o BinaryEscape(F.args[3])
            ELSE B(<<"F">>) \o HexDigits(F.args[1]))

\* The bits of a protocol open-flag word that have a meaning.
OpenFlagBits == {1, 2, 8, 512, 1024, 2048}

\* C26: gdb_open_flags_to_system_flags fails to parse a word whose low two
\* bits are 3 or that has a bit set other than 1, 2, 0x8, 0x200, 0x400 and
\* 0x800; for every other word the result's access mode is read-only,
\* write-only or read-write for low bits 0, 1, 2, and its append, create,
\* truncate and exclusive bits are set exactly when 0x8, 0x200, 0x400, 0x800
\* are set in the word, and no other bit is set.
C26_OpenFlags ==
    F.op = "gdb_open_flags_to_system_flags" =>
        LET w == F.args[1]
            other == w < 0 \/ \E k \in 0..20 : 2^k \notin OpenFlagBits /\ HasBit(w, 2^k)
        IN IF w % 4 = 3 \/ other
           THEN F.panic = "Failed to parse gdb request"
           ELSE /\ F.panic = ""
                /\ F.val % 4 = CASE w % 4 = 0 -> libc.O_RDONLY
                                 [] w % 4 = 1 -> libc.O_WRONLY
                                 [] w % 4 = 2 -> libc.O_RDWR
                /\ HasBit(F.val, libc.O_APPEND) <=> HasBit(w, 8)
                /\ HasBit(F.val, libc.O_CREAT) <=> HasBit(w, 512)
                /\ HasBit(F.val, libc.O_TRUNC) <=> HasBit(w, 1024)
                /\ HasBit(F.val, libc.O_EXCL) <=> HasBit(w, 2048)
                /\ \A k \in 0..20 :
                       HasBit(F.val, 2^k) =>
                           2^k \in {1, 2, libc.O_APPEND, libc.O_CREAT, libc.O_TRUNC,
                                    libc.O_EXCL}

\* A write-only open that creates and appends, but neither truncates nor is
\* exclusive, was converted.
C26_Witness ==
    /\ F.op = "gdb_open_flags_to_system_flags"
    /\ F.args[1] = 1 + 8 + 512
    /\ F.val = libc.O_WRONLY + libc.O_APPEND + libc.O_CREAT
    /\ F.panic = ""

\* C27: reply_select_thread(TRUE) on a set-query-thread request makes the
\* request's target the query thread and leaves the resume thread alone, on a
\* set-continue-thread request it makes the target the resume thread and
\* leaves the query thread alone, and it sends OK; reply_select_thread(FALSE)
\* sends E01 and changes neither selected thread.
C27_ReplySelectThread ==
    F.op = "reply_select_thread" =>
        LET ok == F.args[1]
            kind == F.args[2]
            target == F.args[3]
            qAfter == F.args[6]
            rAfter == F.args[7]
        IN /\ F.panic = ""
           /\ F.out = PacketBytes(IF ok THEN B(<<"O", "K">>) ELSE B(<<"E", "0", "1">>))
           /\ qAfter = IF ok /\ kind = "DREQ_SET_QUERY_THREAD" THEN target ELSE F.args[4]
           /\ rAfter = IF ok /\ kind = "DREQ_SET_CONTINUE_THREAD" THEN target ELSE F.args[5]

\* A set-continue-thread request was accepted: the resume thread changed to a
\* target that neither selected thread was, and the query thread stayed.
C27_Witness ==
    /\ F.op = "reply_select_thread"
    /\ F.args[1]
    /\ F.args[2] = "DREQ_SET_CONTINUE_THREAD"
    /\ F.args[3] \notin {F.args[4], F.args[5]}
    /\ F.args[4] # F.args[5]
    /\ F.args[7] = F.args[3]
    /\ F.args[6] = F.args[4]
    /\ F.args[8] = "DREQ_NONE"

\* C28: notify_exit_code(code) sends 'W' and the code in two hexadecimal
\* digits, notify_exit_signal(sig) sends 'X' and the signal in two hexadecimal
\* digits; on a resume or interrupt request both consume the request and
\* leave resume_thread and query_thread alone, and on any other request both
\* fail their assertion.
C28_NotifyExit ==
    F.op \in {"notify_exit_code", "notify_exit_signal"} =>
        IF F.args[2] \in {"DREQ_CONT", "DREQ_INTERRUPT"}
        THEN /\ F.panic = ""
             /\ F.out = PacketBytes(<<IF F.op = "notify_exit_code" THEN 87 ELSE 88>>
                                      \o TwoHexDigits(F.args[1]))
             /\ F.args[7] = "DREQ_NONE"
             /\ F.args[5] = F.args[3]
             /\ F.args[6] = F.args[4]
        ELSE F.panic # "" /\ F.out = <<>>

\* An exit code below 16 was notified on an interrupt request and the
\* request was consumed.
C28_Witness ==
    /\ F.op = "notify_exit_code"
    /\ F.args[1] = 9
    /\ F.args[2] = "DREQ_INTERRUPT"
    /\ F.args[7] = "DREQ_NONE"
    /\ F.out = PacketBytes(B(<<"W", "0", "9">>))

\* The payloads of the packet a failure reply may send: E01, E10, the empty
\* packet for a register that could not be set, and for a file operation
\* "F-1," or "F-01," and the protocol code of the errno.
FailurePayloads(op, err) ==
    IF op = "reply_set_reg" THEN {<<>>}
    ELSE IF op = "notify_no_such_thread" THEN {B(<<"E", "1", "0">>)}
    ELSE IF op \in FileOps
         THEN {B(<<"F", "-", "1", ",">>) \o HexDigits(GdbErrno(err)),
               B(<<"F", "-", "0", "1", ",">>) \o HexDigits(GdbErrno(err))}
    ELSE {B(<<"E", "0", "1">>)}

C30_ReadOnce ==
    (F.op = "read_data_once" /\ ~F.args[7]) =>
        IF F.args[3] # "reset" /\ F.args[2] # <<>>
        THEN /\ F.args[4]
             /\ \E n \in 1..Len(F.args[2]) : F.args[5] = F.args[1] \o Take(F.args[2], n)
        ELSE ~F.args[4] /\ F.args[5] = <<>> /\ F.args[6] = <<>>

\* C31: write_flush returns with outbuf empty.  If no write fails, the
\* bytes written are the bytes that were queued, once each and in order,
\* however many bytes each write took, and the connection stays alive.  A
\* write fails exactly when the peer has reset the connection, or resets it
\* before all of a non-empty outbuf is taken; then the connection is marked
\* dead and the bytes written are the proper prefix taken before the failure.
C31_WriteFlush ==
    F.op = "write_flush" =>
        LET before == F.args[1]
            budget == F.args[3]
            fails == before # <<>> /\ (F.args[4] = "reset"
                                         \/ (budget >= 0 /\ budget < Len(before)))
        IN /\ F.panic = ""
           /\ F.args[6] = <<>>
           /\ IF fails
              THEN /\ ~F.args[5]
                   /\ F.args[7] = IF F.args[4] = "reset" THEN <<>> ELSE Take(before, budget)
              ELSE F.args[5] /\ F.args[7] = before

\* Four bytes were flushed three at a time and the peer reset the connection
\* after the first write: three bytes were sent, the fourth was discarded.
C31_Witness ==
    /\ F.op = "write_flush"
    /\ Len(F.args[1]) = 4
    /\ F.args[2] = 3
    /\ F.args[3] = 3
    /\ ~F.args[5]
    /\ F.args[6] = <<>>
    /\ F.args[7] = Take(F.args[1], 3)

\* C32: the b-packet "c" (resp. "s") becomes the current request and is
\* surfaced: a continue request with direction backward and exactly one
\* action, of type continue (resp. step), on the resume thread selected at
\* that moment and delivering no signal; resume_thread and query_thread are
\* as they were.
C32_ReverseContinueAndStep ==
    (F.op = "process_bpacket" /\ F.args[1] \in {B(<<"c">>), B(<<"s">>)}) =>
        LET r == F.args[4] IN
        /\ F.panic = ""
        /\ F.args[7]
        /\ F.out = <<>>
        /\ r.type_ = "DREQ_CONT"
        /\ r.run_direction = "RunBackward"
        /\ Len(r.actions) = 1
        /\ r.actions[1].type_ = IF F.args[1] = B(<<"c">>) THEN "ActionContinue"
                                                          ELSE "ActionStep"
        /\ r.actions[1].target = F.args[3]
        /\ r.actions[1].maybe_signal_to_deliver = None
        /\ F.args[5] = F.args[2]
        /\ F.args[6] = F.args[3]

\* A "bs" arrived while the resume thread and the query thread differed.
C32_Witness ==
    /\ F.op = "process_bpacket"
    /\ F.args[1] = B(<<"s">>)
    /\ F.args[2] # F.args[3]
    /\ F.args[4].actions[1].type_ = "ActionStep"
    /\ F.args[4].actions[1].target = F.args[3]

\* C33: a b-packet whose payload is neither "c" nor "s" is answered with
\* exactly one empty packet, $#00, is not surfaced, and leaves the current
\* request, resume_thread and query_thread as they were.
C33_UnknownBPacket ==
    (F.op = "process_bpacket" /\ F.args[1] \notin {B(<<"c">>), B(<<"s">>)}) =>
        /\ F.panic = ""
        /\ ~F.args[7]
        /\ F.out = B(<<"$", "#", "0", "0">>)
        /\ F.args[4] = GdbRequest_new("DREQ_NONE")
        /\ F.args[5] = F.args[2]
        /\ F.args[6] = F.args[3]

\* A payload that starts like a known one, "cs", was answered with $#00.
C33_Witness ==
    /\ F.op = "process_bpacket"
    /\ F.args[1] = B(<<"c", "s">>)
    /\ ~F.args[7]
    /\ F.out = B(<<"$", "#", "0", "0">>)

\* The indices of buf that hold '$' or the interrupt character.
PacketStarts(buf) == {i \in 1..Len(buf) : buf[i] \in {36, INTERRUPT_CHAR}}

\* C34: skip_to_packet_start returns true iff inbuf holds a '$' or an
\* interrupt character; then inbuf becomes its suffix that starts at the
\* first of them, nothing from there on being dropped; otherwise inbuf becomes
\* empty; and a second call at once changes neither inbuf nor the result.
C34_SkipToPacketStart ==
    F.op = "skip_to_packet_start" =>
        LET buf == F.args[1]
            after == F.args[2]
        IN /\ F.panic = ""
           /\ F.args[3] <=> PacketStarts(buf) # {}
           /\ F.args[3] =>
                 \E i \in PacketStarts(buf) :
                     /\ \A j \in PacketStarts(buf) : i <= j
                     /\ after = SubSeq(buf, i, Len(buf))
                     /\ after[1] \in {36, INTERRUPT_CHAR}
           /\ ~F.args[3] => after = <<>>
           /\ F.args[4] = after
           /\ F.args[5] = F.args[3]

\* Two bytes of noise were dropped in front of an interrupt character that a
\* '$' follows.
C34_Witness ==
    /\ F.op = "skip_to_packet_start"
    /\ F.args[1] = <<43, 97, INTERRUPT_CHAR, 36>>
    /\ F.args[2] = <<INTERRUPT_CHAR, 36>>
    /\ F.args[3]

RECURSIVE MemoryBytes(_, _)
\* The n bytes an unsigned number occupies in memory on a little-endian
\* machine, the byte at the lowest address first.
MemoryBytes(v, n) ==
    IF n = 0 THEN <<>> ELSE <<v % 256>> \o MemoryBytes(v \div 256, n - 1)

\* The width in bytes of a scalar representation.
ScalarWidth(value) ==
    CASE value = "Value1" -> 1 [] value = "Value2" -> 2 [] value = "Value4" -> 4
      [] value = "Value8" -> 8

\* C35: the reply for a defined register is the hexadecimal of the bytes of
\* its value in memory order, lowest address first: of the first size bytes
\* of a byte array, and of the bytes a scalar of 2, 4 or 8 bytes (or 1) has in
\* memory, so that a scalar and the byte array holding the same bytes give
\* the same reply.
C35_RegisterBytesInMemoryOrder ==
    F.op = "reply_get_reg" =>
        LET reg == F.args[1] IN
        (reg.defined /\ (reg.value = "Value" \/ reg.size = ScalarWidth(reg.value)))
          => F.out = PacketBytes(IF reg.value = "Value"
                                 THEN PlainHex(SubSeq(reg.v, 1, reg.size))
                                 ELSE PlainHex(MemoryBytes(reg.v, reg.size)))

\* C36: when notify_stop returns, whatever request it accepted (a continue
\* or an interrupt) and whatever thread stopped (of the debugged thread group
\* or not), the current request is none or a continue request, and the
\* get_request called next does not fail the immediate-response assertion.
C36_RequestAfterNotifyStop ==
    /\ (last.op = "notify_stop" /\ panicked = "") => req.type_ \in {"DREQ_NONE", "DREQ_CONT"}
    /\ (last.op = "get_request" /\ last.prev = "notify_stop (ignored)")
          => panicked # "get_request: the current request needs an immediate response"

\* C37: GdbRequest::new succeeds for every kind of the enumeration, the
\* kinds without a payload that the stub builds itself (detach, stop reason,
\* interrupt) among them: the result is a request of that kind with a payload
\* variant, target ANY and the suppress-stop flag false.
C37_NewRequestTotal ==
    F.op = "GdbRequest::new" =>
        /\ F.panic = ""
        /\ F.args[2] = F.args[1]
        /\ F.args[3] # "panic"
        /\ F.args[4] = ANY
        /\ ~F.args[5]

\* The engine's calls of FormatSpec that queue a packet holding data the
\* engine supplies.
DataReplies ==
    {"write_binary_packet", "reply_rd_cmd", "reply_get_auxv", "reply_get_exec_file",
     "reply_read_siginfo", "reply_pread", "reply_get_mem", "reply_get_reg",
     "reply_get_regs", "reply_get_current_thread", "reply_get_thread_list",
     "send_stop_reply_packet"}

\* C38: in every packet queued for data the engine supplies, binary or text,
\* the payload between the leading '$' and the closing '#' and its two digits
\* holds no '#' and no '$', so the first '#' after the '$' ends the packet.
C38_NoFramingByteInPayload ==
    (F.op \in DataReplies /\ F.out # <<>>) =>
        /\ F.out[1] = 36
        /\ F.out[Len(F.out) - 2] = 35
        /\ Count(PayloadOf(F.out), 35) = 0
        /\ Count(PayloadOf(F.out), 36) = 0

\* C39: read_bytes_fallible returns Err only when no byte was read and a
\* read failed; otherwise it returns Ok(n) with n at most the length of the
\* buffer and equal to the number of bytes read into it: less than the length
\* after a short read followed by an error or by the end of the data, and 0
\* for an empty buffer.
C39_ReadBytesFallible ==
    F.op = "read_bytes_fallible" =>
        LET len == F.args[1]
            res == F.args[7]
            n == F.args[8]
            copied == F.args[9]
            erred == F.args[10]
        IN /\ res = "Err" => copied = 0 /\ erred
           /\ res # "Err" => res = "Ok" /\ n <= len /\ n = copied
           /\ (copied > 0 /\ erred) => res = "Ok" /\ n < len
           /\ len = 0 => res = "Ok" /\ n = 0

\* One byte of two was read, then the read failed: Ok(1).
C39_Witness ==
    /\ F.op = "read_bytes_fallible"
    /\ F.args[1] = 2
    /\ F.args[5] = <<1, -1>>
    /\ F.args[7] = "Ok"
    /\ F.args[8] = 1
    /\ F.args[10]

\* The events of a did_waitpid run and the tasks after each of them.
WaitEvents == F.args[1]
WaitTasks == F.args[2]

\* The counter before event i.
ExpectingBefore(i) ==
    IF i = 1 THEN 0 ELSE WaitTasks[i - 1].expecting_ptrace_interrupt_stop

IsInterrupt(i) == WaitEvents[i][1] = <<"request", "PTRACE_INTERRUPT">>

\* Stop i was rewritten to a stop with TIME_SLICE_SIGNAL.
Rewritten(i) == ~IsInterrupt(i) /\ WaitTasks[i].siginfo_overriden

\* C40: in did_waitpid, while expecting_ptrace_interrupt_stop is positive
\* each reported stop decrements it by one, and a group stop attributable to
\* PTRACE_INTERRUPT seen while it is positive is rewritten to a stop with
\* TIME_SLICE_SIGNAL (the exit event if the task has died meanwhile) and
\* resets the counter to 0; the counter is never negative, when it is 0 no
\* stop is rewritten, and of the stops after a PTRACE_INTERRUPT only the
\* next two can be rewritten and at most one of them is.
C40_PtraceInterruptStops ==
    F.op = "did_waitpid" =>
        \A i \in 1..Len(WaitEvents) :
            LET before == ExpectingBefore(i)
                after == WaitTasks[i].expecting_ptrace_interrupt_stop
                status == WaitEvents[i][1]
            IN /\ after \in 0..2
               /\ ~IsInterrupt(i) =>
                     IF before > 0 /\ is_signal_triggered_by_ptrace_interrupt(status)
                     THEN /\ Rewritten(i)
                          /\ after = 0
                          /\ WaitTasks[i].si_signo = "TIME_SLICE_SIGNAL"
                          /\ WaitTasks[i].wait_status \in
                                {<<"stop_sig", "TIME_SLICE_SIGNAL">>,
                                 <<"ptrace_event", "PTRACE_EVENT_EXIT">>}
                          /\ (WaitEvents[i][2] \/ WaitEvents[i][3])
                                => WaitTasks[i].wait_status = <<"stop_sig", "TIME_SLICE_SIGNAL">>
                     ELSE /\ ~Rewritten(i)
                          /\ after = (IF before > 0 THEN before - 1 ELSE 0)
                          /\ WaitTasks[i].wait_status # <<"stop_sig", "TIME_SLICE_SIGNAL">>
               /\ Rewritten(i) =>
                     \E j \in 1..(i - 1) :
                         /\ IsInterrupt(j)
                         /\ i - j <= 2
                         /\ \A k \in (j + 1)..(i - 1) : ~Rewritten(k) /\ ~IsInterrupt(k)

\* A PTRACE_INTERRUPT followed by three stops that it may have induced, of
\* which the second is rewritten and the third is not.
C40_Witness ==
    /\ F.op = "did_waitpid"
    /\ Len(WaitEvents) = 4
    /\ IsInterrupt(1)
    /\ WaitEvents[2][1] = <<"group_stop", "SIGTTIN">>
    /\ WaitEvents[3][1] = <<"group_stop", "SIGTRAP">>
    /\ WaitEvents[4][1] = <<"group_stop", "SIGTRAP">>
    /\ WaitTasks[2].expecting_ptrace_interrupt_stop = 1
    /\ Rewritten(3)
    /\ WaitTasks[3].expecting_ptrace_interrupt_stop = 0
    /\ ~Rewritten(4)

====
